---- MODULE Spec2Model ----
(***************************************************************************)
(* Verification model of aserto-dev/scc-lib: the bounded retry executor    *)
(* (retry.Retry), the GitHub secondary-rate-limit wrapper                  *)
(* (githubInteraction.withSecondaryRateLimitRetry) and the operations of   *)
(* the GitHub and GitLab sources.                                          *)
(*                                                                         *)
(* Time is a global clock `now` in milliseconds.  Statements take no time; *)
(* only the attempted call and time.Sleep block.  A blocked invocation     *)
(* records in `wake` the instant at which it resumes, and the clock jumps  *)
(* to that instant when it does.                                           *)
(***************************************************************************)
EXTENDS Integers, Naturals, Sequences, FiniteSets, TLC

VARIABLES now, retry, gh, ls, backend, cl, vc, fa, repo, co

vars == <<now, retry, gh, ls, backend, cl, vc, fa, repo, co>>

(***************************************************************************)
(* Bounds of the model.                                                    *)
(***************************************************************************)
\* largest Retry timeout tried, in ms
MaxTimeout == 25
\* longest time one attempted call may take, in ms
MaxCallDur == 2
\* longest time by which time.Sleep may oversleep, in ms
MaxLag == 1
\* largest RateLimitTimeoutSeconds tried
MaxRateLimitTimeout == 1
\* largest RateLimitRetryCount tried
MaxRetryCount == 3
\* largest number of organisations or repositories the provider holds
MaxItems == 201
\* most provider fetches one list operation is followed for
MaxFetches == 4

\* list operations a paging caller may call
MaxClientCalls == 4

\* attempts of one Retry during which the provider may fail a call
MaxEnvAttempt == 2
\* the number of times a caller repeats a call of CreateRepo
MaxRounds == 3

(***************************************************************************)
(* Program constants.                                                      *)
(***************************************************************************)
Millisecond == 1
Second == 1000
\* backoff.Backoff{Min: 10ms, Max: 5s, Factor: 1.5, Jitter: true}
MinDelay == 10
MaxDelay == 5000
FactorNum == 3
FactorDen == 2

Procs == {1, 2}

\* error values: a kind and, for a wrapping error, the kind of its cause
Error(kind, cause) == [kind |-> kind, cause |-> cause]
\* the nil error
Nil == Error("nil", "nil")
\* no value returned yet
None == Error("none", "nil")
\* the errors the attempted function may return
Errs == {Error("e1", "nil"), Error("e2", "nil")}

Min2(a, b) == IF a <= b THEN a ELSE b
Max2(a, b) == IF a >= b THEN a ELSE b

RECURSIVE Pow(_, _)
Pow(x, n) == IF n = 0 THEN 1 ELSE x * Pow(x, n - 1)

Last(s) == s[Len(s)]

(***************************************************************************)
(* errx.ErrRetryTimeout.Err(err): an ErrRetryTimeout carrying err as its   *)
(* cause.                                                                  *)
(***************************************************************************)
ErrRetryTimeout(cause) == Error("ErrRetryTimeout", cause.kind)

(***************************************************************************)
(* backoff.Backoff.Duration() with Jitter: the n-th call (n from 0) draws  *)
(* a duration from [Min, Min * Factor^n), clamped to [Min, Max].  The set  *)
(* of the whole-millisecond values it can return.                          *)
(***************************************************************************)
BackoffUpper(n) ==
    LET num == MinDelay * Pow(FactorNum, n)
        den == Pow(FactorDen, n)
    IN  IF num % den = 0 THEN (num \div den) - 1 ELSE num \div den

BackoffDurationsNoMin(n) == (MinDelay \div 2) .. Max2(MinDelay, Min2(MaxDelay, BackoffUpper(n)))

BackoffDurations(n) == MinDelay .. Max2(MinDelay, Min2(MaxDelay, BackoffUpper(n)))

(***************************************************************************)
(* The timer channel of time.After(timeout), read by the non-blocking      *)
(* select: it is ready once the deadline t has passed, is not ready before *)
(* it, and at the very instant of the deadline either outcome is possible. *)
(***************************************************************************)
TimerOutcomesNever(t) == {FALSE}

TimerOutcomes(t) ==
    IF now > t THEN {TRUE}
    ELSE IF now < t THEN {FALSE}
    ELSE {TRUE, FALSE}

(***************************************************************************)
(* Scheduling of the blocking operations.                                  *)
(***************************************************************************)
RetryUrgent(p) == retry[p].pc \in {"start", "select"}
RetryBlocked(p) == retry[p].pc \in {"calling", "sleeping"}
GhUrgent(p) == gh[p].pc \in {"start", "select"}
GhBlocked(p) == gh[p].pc \in {"calling", "sleeping"}

\* a blocked invocation resumes at instant w when nothing else is due sooner
CanResumeAt(w) ==
    /\ \A q \in Procs : ~RetryUrgent(q) /\ ~GhUrgent(q)
    /\ \A q \in Procs : RetryBlocked(q) => retry[q].wake >= w
    /\ \A q \in Procs : GhBlocked(q) => gh[q].wake >= w

(***************************************************************************)
(* retry.Retry(timeout, f).  retry[p] is the frame of invocation p:        *)
(*   pc       position in the function ("off": never invoked)              *)
(*   timeout  the argument                                                 *)
(*   attempt  the local attempt counter                                    *)
(*   err      the named result err                                         *)
(*   b        the attempt counter of the local backoff.Backoff             *)
(*   t        the instant at which the time.After channel becomes ready    *)
(*   wake     the instant at which the blocking call or sleep ends         *)
(*   log      what the invocation did: <<"call", attempt, at>>,            *)
(*            <<"ret", error, at>>, <<"sleep", duration, at>>              *)
(*   ret      the value returned to the caller ("none" while running)      *)
(***************************************************************************)
RetryFrame(pc, timeout) ==
    [pc |-> pc, timeout |-> timeout, attempt |-> 0, err |-> Nil, b |-> 0,
     t |-> 0, wake |-> 0, log |-> <<>>, ret |-> None]

RetryOff == RetryFrame("off", 0)

\* lines 23, 26, 41: attempt is a local of the invocation
AttemptOfFirst(p, fr) == IF p = 1 THEN fr.attempt ELSE retry[1].attempt

Attempt(p, fr) == fr.attempt

\* f(attempt) is invoked; it returns after 0..MaxCallDur ms
RetryInvoke(p, fr, next) ==
    \E d \in 0 .. MaxCallDur :
        retry' = [retry EXCEPT ![p] =
                    [fr EXCEPT !.pc = next,
                               !.wake = now + d,
                               !.log = Append(fr.log, <<"call", Attempt(p, fr), now>>)]]

\* line 25: timeout == 0 runs the function once, outside the loop
RunOnceNever(timeout) == FALSE

RunOnce(timeout) == timeout = 0

\* line 46: attempt++
NextAttemptStuck(attempt) == attempt

NextAttempt(attempt) == attempt + 1

\* lines 16-31: b := &backoff.Backoff{...}; attempt := 1; the timeout == 0
\* test; otherwise t := time.After(timeout)
RetryStart(p) ==
    /\ retry[p].pc = "start"
    /\ LET fr == [retry[p] EXCEPT !.attempt = 1, !.b = 0]
       IN  IF RunOnce(fr.timeout)
           THEN RetryInvoke(p, fr, "once")
           ELSE retry' = [retry EXCEPT ![p] =
                            [fr EXCEPT !.pc = "select", !.t = now + fr.timeout]]
    /\ UNCHANGED <<now, gh, ls, backend, cl, vc, fa, repo, co>>

\* lines 26-30: err = f(attempt) returned, timeout == 0
RetryOnceReturn(p) ==
    /\ retry[p].pc = "once"
    /\ CanResumeAt(retry[p].wake)
    /\ now' = retry[p].wake
    /\ \E e \in Errs \cup {Nil} :
        retry' = [retry EXCEPT ![p] =
                    [@ EXCEPT !.pc = "done",
                              !.err = e,
                              !.log = Append(@, <<"ret", e, now'>>),
                              !.ret = IF e # Nil THEN ErrRetryTimeout(e) ELSE Nil]]
    /\ UNCHANGED <<gh, ls, backend, cl, vc, fa, repo, co>>

\* lines 34-41 and 50: the select on t; break retryLoop and return
\* ErrRetryTimeout.Err(err) when t is ready, otherwise invoke f(attempt)
RetrySelect(p) ==
    /\ retry[p].pc = "select"
    /\ \E fired \in TimerOutcomes(retry[p].t) :
        IF fired
        THEN retry' = [retry EXCEPT ![p] =
                         [@ EXCEPT !.pc = "done",
                                   !.ret = ErrRetryTimeout(retry[p].err)]]
        ELSE RetryInvoke(p, retry[p], "calling")
    /\ UNCHANGED <<now, gh, ls, backend, cl, vc, fa, repo, co>>

\* lines 41-47: err = f(attempt) returned; return on nil, otherwise
\* attempt++ and time.Sleep(b.Duration())
RetryCallReturn(p) ==
    /\ retry[p].pc = "calling"
    /\ CanResumeAt(retry[p].wake)
    /\ now' = retry[p].wake
    /\ \E e \in Errs \cup {Nil} :
        LET fr == [retry[p] EXCEPT !.err = e,
                                   !.log = Append(@, <<"ret", e, now'>>)]
        IN  IF e = Nil
            THEN retry' = [retry EXCEPT ![p] = [fr EXCEPT !.pc = "done", !.ret = Nil]]
            ELSE \E dur \in BackoffDurations(fr.b) : \E lag \in 0 .. MaxLag :
                    retry' = [retry EXCEPT ![p] =
                                [fr EXCEPT !.pc = "sleeping",
                                           !.attempt = NextAttempt(@),
                                           !.b = @ + 1,
                                           !.wake = now' + dur + lag,
                                           !.log = Append(fr.log, <<"sleep", dur, now'>>)]]
    /\ UNCHANGED <<gh, ls, backend, cl, vc, fa, repo, co>>

\* line 47: time.Sleep returns; back to the head of the loop
RetryWake(p) ==
    /\ retry[p].pc = "sleeping"
    /\ CanResumeAt(retry[p].wake)
    /\ now' = retry[p].wake
    /\ retry' = [retry EXCEPT ![p] = [@ EXCEPT !.pc = "select"]]
    /\ UNCHANGED <<gh, ls, backend, cl, vc, fa, repo, co>>

RetryNext ==
    \E p \in Procs :
        \/ RetryStart(p)
        \/ RetryOnceReturn(p)
        \/ RetrySelect(p)
        \/ RetryCallReturn(p)
        \/ RetryWake(p)

\* the timeouts tried
TimeoutChoices == {0, 1 * Millisecond, MinDelay, 2 * MinDelay, MaxTimeout}


(***************************************************************************)
(* githubInteraction.withSecondaryRateLimitRetry(f).  gh[p] is the frame   *)
(* of invocation p:                                                        *)
(*   retryLimitTimeout, retryCount   the fields of the githubInteraction   *)
(*   tryCount, err                   the locals of the function            *)
(*   pc, t, wake, log, ret           as for Retry; a "ret" event of the    *)
(*                                   log carries the error f returned      *)
(***************************************************************************)
GhFrame(pc, retryLimitTimeout, retryCount) ==
    [pc |-> pc, retryLimitTimeout |-> retryLimitTimeout, retryCount |-> retryCount,
     tryCount |-> 0, err |-> Nil, t |-> 0, wake |-> 0, log |-> <<>>, ret |-> None]

\* *github.AbuseRateLimitError; RetryAfter is a *time.Duration: <<>> is the
\* nil pointer, <<d>> points to d
AbuseRateLimitError(retryAfter) ==
    [kind |-> "AbuseRateLimitError", cause |-> "nil", retryAfter |-> retryAfter]

IsAbuse(e) == e.kind = "AbuseRateLimitError"

\* the RetryAfter values the provider may send
RetryAfterChoices == {<<>>, <<0>>, <<400 * Millisecond>>, <<1 * Second>>}

\* what the wrapped provider call may return
GhResults == {Nil} \cup Errs \cup {AbuseRateLimitError(ra) : ra \in RetryAfterChoices}

\* cerr.ErrRetryTimeout.Msg("reached retry limit"): no cause attached
ErrRetryLimit == Error("ErrRetryTimeout", "nil")

\* line 269: an error that is not an abuse rate limit error is returned as it is
GhReturnErrWrapped(e) == ErrRetryTimeout(e)

GhReturnErr(e) == e

\* line 267: the duration handed to time.Sleep
GhSleepForHalf(e) == e.retryAfter[1] \div 2

GhSleepFor(e) == e.retryAfter[1]

\* line 271: tryCount >= gh.retryCount
RetryLimitReachedNever(fr) == FALSE

RetryLimitReachedOffByOne(fr) == fr.tryCount > fr.retryCount

RetryLimitReached(fr) == fr.tryCount >= fr.retryCount

\* lines 251-254: timeout := retryLimitTimeout * time.Second; tryCount := 0;
\* t := time.After(timeout)
GhStart(p) ==
    /\ gh[p].pc = "start"
    /\ gh' = [gh EXCEPT ![p] =
                [@ EXCEPT !.pc = "select",
                          !.tryCount = 0,
                          !.t = now + gh[p].retryLimitTimeout * Second]]
    /\ UNCHANGED <<now, retry, ls, backend, cl, vc, fa, repo, co>>

\* lines 255-262 and 276: the select on t; break retryLoop and return
\* ErrRetryTimeout.Err(err) when t is ready, otherwise tryCount++ and
\* invoke f()
GhSelect(p) ==
    /\ gh[p].pc = "select"
    /\ \E fired \in TimerOutcomes(gh[p].t) :
        IF fired
        THEN gh' = [gh EXCEPT ![p] =
                      [@ EXCEPT !.pc = "done", !.ret = ErrRetryTimeout(gh[p].err)]]
        ELSE \E d \in 0 .. MaxCallDur :
                gh' = [gh EXCEPT ![p] =
                         [@ EXCEPT !.pc = "calling",
                                   !.tryCount = @ + 1,
                                   !.wake = now + d,
                                   !.log = Append(@, <<"call", gh[p].tryCount + 1, now>>)]]
    /\ UNCHANGED <<now, retry, ls, backend, cl, vc, fa, repo, co>>

\* lines 262-270: err = f() returned; return nil, or time.Sleep(*RetryAfter)
\* for an abuse rate limit error, or return any other error as it is
GhCallReturn(p) ==
    /\ gh[p].pc = "calling"
    /\ CanResumeAt(gh[p].wake)
    /\ now' = gh[p].wake
    /\ \E e \in GhResults :
        LET fr == [gh[p] EXCEPT !.err = e, !.log = Append(@, <<"ret", e, now'>>)]
        IN  IF e = Nil
            THEN gh' = [gh EXCEPT ![p] = [fr EXCEPT !.pc = "done", !.ret = Nil]]
            ELSE IF IsAbuse(e)
            THEN IF e.retryAfter = <<>>
                 THEN \* nil pointer dereference
                      gh' = [gh EXCEPT ![p] = [fr EXCEPT !.pc = "panicked"]]
                 ELSE \E lag \in 0 .. MaxLag :
                        gh' = [gh EXCEPT ![p] =
                                 [fr EXCEPT !.pc = "sleeping",
                                            !.wake = now' + Max2(0, GhSleepFor(e)) + lag,
                                            !.log = Append(fr.log, <<"sleep", GhSleepFor(e), now'>>)]]
            ELSE gh' = [gh EXCEPT ![p] = [fr EXCEPT !.pc = "done", !.ret = GhReturnErr(e)]]
    /\ UNCHANGED <<retry, ls, backend, cl, vc, fa, repo, co>>

\* lines 267-273: time.Sleep returns; return ErrRetryTimeout "reached retry
\* limit" when tryCount >= retryCount, otherwise back to the head of the loop
GhWake(p) ==
    /\ gh[p].pc = "sleeping"
    /\ CanResumeAt(gh[p].wake)
    /\ now' = gh[p].wake
    /\ IF RetryLimitReached(gh[p])
       THEN gh' = [gh EXCEPT ![p] = [@ EXCEPT !.pc = "done", !.ret = ErrRetryLimit]]
       ELSE gh' = [gh EXCEPT ![p] = [@ EXCEPT !.pc = "select"]]
    /\ UNCHANGED <<retry, ls, backend, cl, vc, fa, repo, co>>

GhNext ==
    \E p \in Procs :
        \/ GhStart(p)
        \/ GhSelect(p)
        \/ GhCallReturn(p)
        \/ GhWake(p)

(***************************************************************************)
(* Page tokens are strings, modelled as sequences of characters.           *)
(***************************************************************************)
Digits == <<"0", "1", "2", "3", "4", "5", "6", "7", "8", "9">>

IsDigit(c) == \E i \in DOMAIN Digits : Digits[i] = c

DigitVal(c) == (CHOOSE i \in DOMAIN Digits : Digits[i] = c) - 1

IsSpace(c) == c \in {" ", "\t", "\n"}

\* strings.TrimSpace
RECURSIVE TrimLeft(_)
TrimLeft(s) == IF s # <<>> /\ IsSpace(s[1]) THEN TrimLeft(Tail(s)) ELSE s

RECURSIVE TrimRight(_)
TrimRight(s) ==
    IF s # <<>> /\ IsSpace(s[Len(s)]) THEN TrimRight(SubSeq(s, 1, Len(s) - 1)) ELSE s

TrimSpace(s) == TrimRight(TrimLeft(s))

\* strconv.Atoi: an optional sign followed by one or more decimal digits
Unsigned(s) == IF s # <<>> /\ s[1] \in {"+", "-"} THEN Tail(s) ELSE s

AtoiOk(s) == Unsigned(s) # <<>> /\ \A i \in DOMAIN Unsigned(s) : IsDigit(Unsigned(s)[i])

RECURSIVE DigitsVal(_)
DigitsVal(s) ==
    IF s = <<>> THEN 0 ELSE 10 * DigitsVal(SubSeq(s, 1, Len(s) - 1)) + DigitVal(s[Len(s)])

Atoi(s) == IF s[1] = "-" THEN 0 - DigitsVal(Unsigned(s)) ELSE DigitsVal(Unsigned(s))

\* fmt.Sprintf("%d", n)
RECURSIVE NatDigits(_)
NatDigits(n) ==
    IF n < 10 THEN <<Digits[n + 1]>> ELSE Append(NatDigits(n \div 10), Digits[(n % 10) + 1])

Itoa(n) == IF n < 0 THEN <<"-">> \o NatDigits(0 - n) ELSE NatDigits(n)

\* the items lo..hi of the provider's list, in order
Range(lo, hi) == [i \in 1 .. (hi - lo + 1) |-> lo + i - 1]

(***************************************************************************)
(* The providers.  backend.count organisations (or repositories of the     *)
(* queried owner) exist, numbered 1..count in the provider's order.        *)
(***************************************************************************)
\* the list the provider holds: count items, of which, when they are the
\* projects a user-projects call lists, those in other have another user as
\* Owner and those in ownerless have no Owner
Backend(count, other, ownerless) == [count |-> count, other |-> other, ownerless |-> ownerless]

\* Owner.Username of a project; <<>> is the nil Owner
OwnerOf(proj, username) ==
    IF proj \in backend.ownerless THEN <<>>
    ELSE IF proj \in backend.other THEN <<"other">>
    ELSE <<username>>

\* what one list call reported
Reply(items, nextPage, hasNextPage, endCursor, total) ==
    [items |-> items, nextPage |-> nextPage, hasNextPage |-> hasNextPage,
     endCursor |-> endCursor, total |-> total]

\* GitLab offset pagination: page and per_page are sent only when non-zero
\* (default page 1, default 20 per page, at most 100 per page); the reply
\* carries NextPage (0 on the last page) and TotalItems
GitlabPerPage(perPage) == IF perPage <= 0 THEN 20 ELSE Min2(perPage, 100)

GitlabList(page, perPage) ==
    LET pg == IF page <= 0 THEN 1 ELSE page
        pp == GitlabPerPage(perPage)
        lo == (pg - 1) * pp + 1
        hi == Min2(pg * pp, backend.count)
    IN  Reply(Range(lo, hi), IF pg * pp < backend.count THEN pg + 1 ELSE 0,
              pg * pp < backend.count, <<>>, backend.count)

\* GitHub GraphQL connections: the cursor of item k is opaque to the client
Cursor(k) == <<"c">> \o Itoa(k)

CursorOk(s) == s = <<>> \/ (Len(s) >= 2 /\ s[1] = "c" /\ \A i \in 2 .. Len(s) : IsDigit(s[i]))

CursorPos(s) == IF s = <<>> THEN 0 ELSE DigitsVal(Tail(s))

\* first items after the cursor; pageInfo.endCursor is the cursor of the last
\* item returned (null when none), totalCount the size of the whole list
GithubQuery(after, first) ==
    LET lo == CursorPos(after) + 1
        hi == Min2(CursorPos(after) + Max2(first, 0), backend.count)
    IN  Reply(Range(lo, hi), 0, hi < backend.count,
              IF hi >= lo THEN Cursor(hi) ELSE <<>>, backend.count)

(***************************************************************************)
(* ListOrgs and ListRepos of githubSource and gitlabSource.  ls is the     *)
(* frame of the one list operation followed:                               *)
(*   provider, op   which of the four operations                           *)
(*   page           the *api.PaginationRequest: <<>> for nil, else         *)
(*                  <<[size, token]>>                                      *)
(*   isUser         GitLab ListRepos: org == user.Username                 *)
(*   first, after   GitHub: vars["first"], vars["after"]                   *)
(*   optPage, optPerPage   GitLab: Page and PerPage of the options the     *)
(*                  list call is made with                                 *)
(*   listOptPage    GitLab ListRepos: Page of the listOpt that             *)
(*                  listPagedRepos is handed a pointer to                  *)
(*   result         the records accumulated                                *)
(*   calls          the provider calls made, each with what it reported    *)
(*   items, resp, err   the values returned; resp is <<>> for nil, else    *)
(*                  <<[nextToken, resultSize, totalSize]>>                 *)
(*   username       Profile: the local username, <<>> before it is set;    *)
(*                  a name is <<>> for "" and a one-element sequence else  *)
(*   name           Profile: the name returned                             *)
(***************************************************************************)
ListFrame(pc, provider, op, page, isUser) ==
    [pc |-> pc, provider |-> provider, op |-> op, page |-> page, isUser |-> isUser,
     first |-> 0, after |-> <<>>, optPage |-> 0, optPerPage |-> 0, listOptPage |-> 0,
     result |-> <<>>, calls |-> <<>>, items |-> <<>>, resp |-> <<>>, err |-> Nil,
     username |-> <<>>, name |-> <<>>]

ListOff == ListFrame("off", "none", "none", <<>>, FALSE)

PaginationRequest(size, token) == [size |-> size, token |-> token]

PaginationResponse(nextToken, resultSize, totalSize) ==
    [nextToken |-> nextToken, resultSize |-> resultSize, totalSize |-> totalSize]

\* one provider call and what it reported (<<>> when it failed)
ListCall(kind, page, perPage, after, reply) ==
    [kind |-> kind, page |-> page, perPage |-> perPage, after |-> after, reply |-> reply]

\* return items, resp, err
ListReturn(fr, items, resp, err) ==
    ls' = [fr EXCEPT !.pc = "done", !.items = items, !.resp = resp, !.err = err]

\* if page.Size < -1 || page.Size > 100
PageSizeInvalidLax(size) == size < -1

PageSizeInvalid(size) == size < -1 \/ size > 100

\* if strings.TrimSpace(page.Token) != ""
HasTokenUntrimmed(token) == token # <<>>

HasToken(token) == TrimSpace(token) # <<>>

\* the error returned for a request that fails validation, Nil when it passes:
\* the nil and size tests of both providers
PageCheck(page) ==
    IF page = <<>> THEN Error("page must not be empty", "nil")
    ELSE IF PageSizeInvalid(page[1].size) THEN Error("page size must be >= -1 and <= 100", "nil")
    ELSE Nil

\* ... followed in GitLab by the creation of the client, which may fail, and
\* by strconv.Atoi(page.Token) for a non-blank token
GitlabPageCheck(page, clientOk) ==
    IF PageCheck(page) # Nil THEN PageCheck(page)
    ELSE IF ~clientOk THEN Error("failed to create Gitlab client", "e1")
    ELSE IF HasToken(page[1].token) /\ ~AtoiOk(page[1].token)
         THEN Error("page token must be int", "strconv.Atoi")
    ELSE Nil

\* pageToRead
PageToRead(page) == IF HasToken(page[1].token) THEN Atoi(page[1].token) ELSE 0

\* the internal page size of a request for everything
AllPageSizeSmall(size) == IF size = -1 THEN 50 ELSE size

AllPageSize(size) == IF size = -1 THEN 100 ELSE size

\* github.go 212-251 (ListOrgs) and 294-339 (ListRepos): validation, then
\* vars["first"] and vars["after"]
GithubListStart(op) ==
    /\ ls.pc = "start" /\ ls.provider = "github" /\ ls.op = op
    /\ IF PageCheck(ls.page) # Nil
       THEN ListReturn(ls, <<>>, <<>>, PageCheck(ls.page))
       ELSE ls' = [ls EXCEPT !.pc = "fetch",
                             !.first = AllPageSize(ls.page[1].size),
                             !.after = ls.page[1].token]
    /\ UNCHANGED <<now, retry, gh, backend, cl, vc, fa, repo, co>>

GithubListOrgsStart == GithubListStart("ListOrgs")

GithubListReposStart == GithubListStart("ListRepos")

\* the cursor the next query continues from
NextAfter(fr, reply) == reply.endCursor

\* github.go 253-290 (ListOrgs) and 341-380 (ListRepos): one turn of the loop
GithubListFetch(op) ==
    /\ ls.pc = "fetch" /\ ls.provider = "github" /\ ls.op = op
    /\ Len(ls.calls) < MaxFetches
    /\ \E ok \in {CursorOk(ls.after), FALSE} :
        IF ~ok
        THEN ListReturn([ls EXCEPT !.calls = Append(@, ListCall("Query", 0, ls.first, ls.after, <<>>))],
                        <<>>, <<>>, Error("error running query against github graphql server", "e1"))
        ELSE LET reply == GithubQuery(ls.after, ls.first)
                 fr == [ls EXCEPT !.calls = Append(@, ListCall("Query", 0, ls.first, ls.after, <<reply>>)),
                                  !.result = @ \o reply.items]
             IN  IF ls.page[1].size # -1
                 THEN ListReturn(fr, fr.result,
                                 <<PaginationResponse(reply.endCursor, Len(fr.result), reply.total)>>, Nil)
                 ELSE IF ~reply.hasNextPage
                 THEN ListReturn(fr, fr.result,
                                 <<PaginationResponse(<<>>, Len(fr.result), Len(fr.result))>>, Nil)
                 ELSE ls' = [fr EXCEPT !.after = NextAfter(fr, reply)]
    /\ UNCHANGED <<now, retry, gh, backend, cl, vc, fa, repo, co>>

GithubListOrgsFetch == GithubListFetch("ListOrgs")

GithubListReposFetch == GithubListFetch("ListRepos")

\* gitlab.go 101-134: ListOrgs up to the loop
GitlabListOrgsStart ==
    /\ ls.pc = "start" /\ ls.provider = "gitlab" /\ ls.op = "ListOrgs"
    /\ \E clientOk \in BOOLEAN :
       IF GitlabPageCheck(ls.page, clientOk) # Nil
       THEN ListReturn(ls, <<>>, <<>>, GitlabPageCheck(ls.page, clientOk))
       ELSE ls' = [ls EXCEPT !.pc = "fetch",
                             !.optPage = PageToRead(ls.page),
                             !.optPerPage = AllPageSize(ls.page[1].size)]
    /\ UNCHANGED <<now, retry, gh, backend, cl, vc, fa, repo, co>>

\* gitlab.go 136-172: one turn of the loop of ListOrgs
GitlabListOrgsFetch ==
    /\ ls.pc = "fetch" /\ ls.provider = "gitlab" /\ ls.op = "ListOrgs"
    /\ Len(ls.calls) < MaxFetches
    /\ \E ok \in BOOLEAN :
        IF ~ok
        THEN ListReturn([ls EXCEPT !.calls = Append(@, ListCall("ListGroups", ls.optPage, ls.optPerPage, <<>>, <<>>))],
                        ls.result, <<>>, Error("e1", "nil"))
        ELSE LET reply == GitlabList(ls.optPage, ls.optPerPage)
                 fr == [ls EXCEPT !.calls = Append(@, ListCall("ListGroups", ls.optPage, ls.optPerPage, <<>>, <<reply>>)),
                                  !.result = @ \o reply.items]
             IN  IF ls.page[1].size # -1
                 THEN ListReturn(fr, fr.result,
                                 <<PaginationResponse(Itoa(reply.nextPage), Len(fr.result), reply.total)>>, Nil)
                 ELSE IF reply.nextPage = 0
                 THEN ListReturn(fr, fr.result,
                                 <<PaginationResponse(<<>>, Len(fr.result), Len(fr.result))>>, Nil)
                 ELSE ls' = [fr EXCEPT !.optPage = reply.nextPage]
    /\ UNCHANGED <<now, retry, gh, backend, cl, vc, fa, repo, co>>

\* gitlab.go 175-224: ListRepos up to the call of listPagedRepos; opt is
\* built from a copy of listOpt, and listPagedRepos gets &listOpt
GitlabListReposStart ==
    /\ ls.pc = "start" /\ ls.provider = "gitlab" /\ ls.op = "ListRepos"
    /\ \E clientOk \in BOOLEAN :
       IF GitlabPageCheck(ls.page, clientOk) # Nil
       THEN ListReturn(ls, <<>>, <<>>, GitlabPageCheck(ls.page, clientOk))
       ELSE \E ok \in BOOLEAN :
            LET fr == [ls EXCEPT !.calls = Append(@, ListCall("CurrentUser", 0, 0, <<>>, <<>>))]
            IN  IF ~ok
                THEN ListReturn(fr, <<>>, <<>>, Error("e1", "nil"))
                ELSE ls' = [fr EXCEPT !.pc = "fetch",
                                      !.optPage = PageToRead(ls.page),
                                      !.listOptPage = PageToRead(ls.page),
                                      !.optPerPage = AllPageSize(ls.page[1].size)]
    /\ UNCHANGED <<now, retry, gh, backend, cl, vc, fa, repo, co>>

\* gitlab.go 226-271: one turn of the loop of listPagedRepos; lpFunc lists
\* with opt, while line 262 sets Page on the listOpt it was handed
GitlabListPagedReposFetch ==
    /\ ls.pc = "fetch" /\ ls.provider = "gitlab" /\ ls.op = "ListRepos"
    /\ Len(ls.calls) < MaxFetches
    /\ LET kind == IF ls.isUser THEN "ListUserProjects" ELSE "ListGroupProjects" IN
       \E ok \in BOOLEAN :
        IF ~ok
        THEN ListReturn([ls EXCEPT !.calls = Append(@, ListCall(kind, ls.optPage, ls.optPerPage, <<>>, <<>>))],
                        ls.result, <<>>, Error("e1", "nil"))
        ELSE LET reply == GitlabList(ls.optPage, ls.optPerPage)
                 fr == [ls EXCEPT !.calls = Append(@, ListCall(kind, ls.optPage, ls.optPerPage, <<>>, <<reply>>)),
                                  !.result = @ \o reply.items]
             IN  IF ls.page[1].size # -1
                 THEN ListReturn(fr, fr.result,
                                 <<PaginationResponse(Itoa(reply.nextPage), Len(fr.result), reply.total)>>, Nil)
                 ELSE IF reply.nextPage = 0
                 THEN ListReturn(fr, fr.result,
                                 <<PaginationResponse(<<>>, Len(fr.result), Len(fr.result))>>, Nil)
                 ELSE ls' = [fr EXCEPT !.listOptPage = reply.nextPage]
    /\ UNCHANGED <<now, retry, gh, backend, cl, vc, fa, repo, co>>

ListNext ==
    \/ GithubListOrgsStart
    \/ GithubListReposStart
    \/ GithubListOrgsFetch
    \/ GithubListReposFetch
    \/ GitlabListOrgsStart
    \/ GitlabListOrgsFetch
    \/ GitlabListReposStart
    \/ GitlabListPagedReposFetch

(***************************************************************************)
(* Profile of gitlabSource.                                                *)
(***************************************************************************)
\* gitlab.go 53-70: the client, CurrentUser, the options of the first call
GitlabProfileStart ==
    /\ ls.pc = "start" /\ ls.provider = "gitlab" /\ ls.op = "Profile"
    /\ \E clientOk \in BOOLEAN : \E ok \in BOOLEAN :
        IF ~clientOk
        THEN ListReturn(ls, <<>>, <<>>, Error("failed to create Gitlab client", "e1"))
        ELSE LET fr == [ls EXCEPT !.calls = Append(@, ListCall("CurrentUser", 0, 0, <<>>, <<>>))]
             IN  IF ~ok
                 THEN ListReturn(fr, <<>>, <<>>, Error("e1", "nil"))
                 ELSE ls' = [fr EXCEPT !.pc = "fetch", !.username = <<"user">>,
                                       !.optPage = 0, !.optPerPage = 0]
    /\ UNCHANGED <<now, retry, gh, backend, cl, vc, fa, repo, co>>

\* gitlab.go 78-89: the projects of a reply that are kept
OwnedAll(projects, username) == projects

Owned(projects, username) ==
    SelectSeq(projects, LAMBDA proj : OwnerOf(proj, username[1]) = username)

\* gitlab.go 72-98: one turn of the loop
GitlabProfileFetch ==
    /\ ls.pc = "fetch" /\ ls.provider = "gitlab" /\ ls.op = "Profile"
    /\ \E ok \in BOOLEAN :
        IF ~ok
        THEN ListReturn([ls EXCEPT !.calls = Append(@, ListCall("ListUserProjects", ls.optPage, ls.optPerPage, <<>>, <<>>))],
                        ls.result, <<>>, Error("e1", "nil"))
        ELSE LET reply == GitlabList(ls.optPage, ls.optPerPage)
                 fr == [ls EXCEPT !.calls = Append(@, ListCall("ListUserProjects", ls.optPage, ls.optPerPage, <<>>, <<reply>>)),
                                  !.result = @ \o Owned(reply.items, ls.username)]
             IN  IF reply.nextPage = 0
                 THEN ListReturn([fr EXCEPT !.name = ls.username], fr.result, <<>>, Nil)
                 ELSE ls' = [fr EXCEPT !.optPage = reply.nextPage]
    /\ UNCHANGED <<now, retry, gh, backend, cl, vc, fa, repo, co>>

ProfileNext ==
    \/ GitlabProfileStart
    \/ GitlabProfileFetch

\* the numbers of projects the user-projects call lists tried for Profile
ProfileCountChoices == {0, 1, 3, 20, 21, 45}

\* the projects without Owner tried
OwnerlessChoices == {{}, {3}, {1, 21}}

\* the requests tried
SizeChoices == {-2, -1, 0, 1, 2, 100, 101}

TokenChoices == {<<>>, <<" ">>, <<"x">>, <<"2">>, <<"2", " ">>, <<"c", "2">>, <<"c", "1", "0", "0">>}

PageChoices == {<<>>} \cup {<<PaginationRequest(sz, tk)>> : sz \in SizeChoices, tk \in TokenChoices}

\* the projects of another user tried
OtherChoices == {{}, {1}, {2, 22}}

\* the sizes of the provider's list tried
CountChoices == {0, 1, 3, 100, 101, MaxItems}

(***************************************************************************)
(* A caller that pages through a list: it starts with the empty token,     *)
(* asks for size items at a time and feeds each nextToken into the next    *)
(* request until it receives the empty one.  cl is its frame:              *)
(*   token   the token of the next request                                 *)
(*   items   the items received so far, in order                           *)
(*   calls   the number of list operations called                          *)
(***************************************************************************)
ClientFrame(pc, provider, op, isUser, size) ==
    [pc |-> pc, provider |-> provider, op |-> op, isUser |-> isUser, size |-> size,
     token |-> <<>>, items |-> <<>>, calls |-> 0, err |-> Nil]

ClientOff == ClientFrame("off", "none", "none", FALSE, 0)

\* the caller calls ListOrgs / ListRepos with {size, token}
ClientCall ==
    /\ cl.pc = "next" /\ cl.calls < MaxClientCalls
    /\ ls' = ListFrame("start", cl.provider, cl.op,
                       <<PaginationRequest(cl.size, cl.token)>>, cl.isUser)
    /\ cl' = [cl EXCEPT !.pc = "wait", !.calls = @ + 1]
    /\ UNCHANGED <<now, retry, gh, backend, vc, fa, repo, co>>

\* the call has returned: stop on an error or on the empty nextToken,
\* otherwise go on from nextToken
ClientReceive ==
    /\ cl.pc = "wait" /\ ls.pc = "done"
    /\ IF ls.err # Nil
       THEN cl' = [cl EXCEPT !.pc = "failed", !.err = ls.err]
       ELSE IF ls.resp[1].nextToken = <<>>
       THEN cl' = [cl EXCEPT !.pc = "done", !.items = @ \o ls.items]
       ELSE cl' = [cl EXCEPT !.pc = "next", !.items = @ \o ls.items,
                             !.token = ls.resp[1].nextToken]
    /\ UNCHANGED <<now, retry, gh, ls, backend, vc, fa, repo, co>>

ClientNext ==
    \/ ClientCall
    \/ ClientReceive
    \/ ListNext

\* the page sizes the caller tries
ClientSizeChoices == {1, 2, 100}

(***************************************************************************)
(* Scopes and scope patterns are strings, modelled as sequences of         *)
(* characters.  The patterns are the regular expressions made of literal   *)
(* characters, groups ( ) and alternation |.                               *)
(***************************************************************************)
\* strings.Split(s, sep): the pieces between the separators, one piece at least
RECURSIVE Split(_, _)
Split(s, sep) ==
    IF \E i \in DOMAIN s : s[i] = sep
    THEN LET i == CHOOSE k \in DOMAIN s : s[k] = sep /\ \A m \in 1 .. k - 1 : s[m] # sep
         IN  <<SubSeq(s, 1, i - 1)>> \o Split(SubSeq(s, i + 1, Len(s)), sep)
    ELSE <<s>>

\* groups open after the first i characters of a pattern
RECURSIVE Depth(_, _)
Depth(p, i) ==
    IF i = 0 THEN 0
    ELSE Depth(p, i - 1) + (IF p[i] = "(" THEN 1 ELSE IF p[i] = ")" THEN -1 ELSE 0)

\* regexp.Compile succeeds: every group that opens closes
CompileOk(p) == Depth(p, Len(p)) = 0 /\ \A i \in DOMAIN p : Depth(p, i) >= 0

\* the strings a compiled pattern denotes
RECURSIVE Lang(_)
Lang(p) ==
    IF \E i \in DOMAIN p : p[i] = "|" /\ Depth(p, i) = 0
    THEN LET i == CHOOSE k \in DOMAIN p : p[k] = "|" /\ Depth(p, k) = 0
         IN  Lang(SubSeq(p, 1, i - 1)) \cup Lang(SubSeq(p, i + 1, Len(p)))
    ELSE IF p = <<>> THEN {<<>>}
    ELSE IF p[1] = "("
    THEN LET j == CHOOSE k \in DOMAIN p :
                    Depth(p, k) = 0 /\ \A m \in 1 .. k - 1 : Depth(p, m) > 0
         IN  {a \o b : a \in Lang(SubSeq(p, 2, j - 1)), b \in Lang(SubSeq(p, j + 1, Len(p)))}
    ELSE {<<p[1]>> \o w : w \in Lang(Tail(p))}

\* w occurs in s
Infix(w, s) == \E i \in 0 .. Len(s) - Len(w) : SubSeq(s, i + 1, i + Len(w)) = w

\* r.MatchString(s) for an equality test in place of a regular expression
MatchStringExact(p, s) == p = s

\* r.MatchString(s): some part of s is denoted by the pattern
MatchString(p, s) == \E w \in Lang(p) : Infix(w, s)

\* the scopes and patterns tried
ScopeRepo == <<"r", "e", "p", "o">>

ScopeUser == <<"u", "s", "e", "r">>

ScopeAdminOrg == <<"a", "d", "m", "i", "n", ":", "o", "r", "g">>

ScopeReadOrg == <<"r", "e", "a", "d", ":", "o", "r", "g">>

ScopeWriteOrg == <<"w", "r", "i", "t", "e", ":", "o", "r", "g">>

PatternAnyOrg == <<"(", "a", "d", "m", "i", "n", "|", "r", "e", "a", "d", ")", ":", "o", "r", "g">>

PatternRepoOrUser == <<"(", "r", "e", "p", "o", "|", "u", "s", "e", "r", ")">>

PatternBroken == <<"(", "r", "e", "p", "o">>

Comma == <<",">>

\* values of the X-OAuth-Scopes header
HeaderChoices ==
    {<<>>, ScopeRepo, ScopeAdminOrg, ScopeReadOrg, ScopeWriteOrg,
     ScopeRepo \o Comma \o <<" ">> \o ScopeUser,
     ScopeRepo \o Comma \o ScopeUser \o Comma \o ScopeAdminOrg}

\* values of requiredScopes
RequiredChoices ==
    {<<>>, <<ScopeRepo>>, <<PatternAnyOrg>>,
     <<ScopeRepo, ScopeUser, PatternAnyOrg>>,
     <<ScopeRepo, PatternRepoOrUser>>, <<PatternRepoOrUser, ScopeRepo>>,
     <<ScopeRepo, ScopeRepo>>, <<PatternBroken>>, <<ScopeRepo, PatternBroken>>}

\* HTTP status codes of the identity call
StatusOK == 200

StatusChoices == {StatusOK, 401}

(***************************************************************************)
(* ValidateConnection of githubSource and gitlabSource.  vc is the frame   *)
(* of the one call followed:                                               *)
(*   requiredScopes   the patterns required                                *)
(*   header           X-OAuth-Scopes of the response                       *)
(*   status           the status code of the response, 0 before it came    *)
(*   scopeSlice, i    the granted scopes and the one the loop is at        *)
(*   foundScopes      the keys of the map foundScopes                      *)
(*   ret              the error returned                                   *)
(***************************************************************************)
ValidateFrame(pc, provider, requiredScopes, header) ==
    [pc |-> pc, provider |-> provider, requiredScopes |-> requiredScopes,
     header |-> header, status |-> 0, scopeSlice |-> <<>>, i |-> 0,
     foundScopes |-> {}, ret |-> None]

ValidateOff == ValidateFrame("off", "none", <<>>, <<>>)

\* part_011 16
ErrProviderVerificationConflated(cause) == Error("failed to connect to Github", cause)

ErrProviderVerification(cause) == Error("ErrProviderVerification", cause)

ValidateReturn(fr, err) == vc' = [fr EXCEPT !.pc = "done", !.ret = err]

\* github.go 43-65: the identity call, the status test, the empty list of
\* required scopes, the split of the header
GithubValidateStart ==
    /\ vc.pc = "start" /\ vc.provider = "github"
    /\ \E ok \in BOOLEAN : \E status \in StatusChoices :
        LET fr == [vc EXCEPT !.status = IF ok THEN status ELSE 0] IN
        IF ~ok THEN ValidateReturn(fr, Error("failed to connect to Github", "e1"))
        ELSE IF status # StatusOK THEN ValidateReturn(fr, ErrProviderVerification("nil"))
        ELSE IF Len(vc.requiredScopes) = 0 THEN ValidateReturn(fr, Nil)
        ELSE vc' = [fr EXCEPT !.pc = "scopes", !.scopeSlice = Split(vc.header, ","), !.i = 1]
    /\ UNCHANGED <<now, retry, gh, ls, backend, cl, fa, repo, co>>

\* the inner loop of lines 67-76 for the granted scope es: the index of the
\* first required pattern that fails to compile or matches, 0 when none does
FirstHit(es, requiredScopes) ==
    LET hits == {k \in DOMAIN requiredScopes :
                    ~CompileOk(requiredScopes[k])
                    \/ MatchString(requiredScopes[k], TrimSpace(es))}
    IN  IF hits = {} THEN 0 ELSE CHOOSE k \in hits : \A m \in hits : k <= m

\* github.go 66-77: one turn of the outer loop
GithubValidateScope ==
    /\ vc.pc = "scopes" /\ vc.i <= Len(vc.scopeSlice)
    /\ LET k == FirstHit(vc.scopeSlice[vc.i], vc.requiredScopes) IN
       IF k = 0 THEN vc' = [vc EXCEPT !.i = @ + 1]
       ELSE IF ~CompileOk(vc.requiredScopes[k])
       THEN ValidateReturn(vc, ErrProviderVerification("failed to compile regexp"))
       ELSE vc' = [vc EXCEPT !.i = @ + 1,
                             !.foundScopes = @ \cup {vc.requiredScopes[k]}]
    /\ UNCHANGED <<now, retry, gh, ls, backend, cl, fa, repo, co>>

\* github.go 78-85
GithubValidateCheck ==
    /\ vc.pc = "scopes" /\ vc.i > Len(vc.scopeSlice)
    /\ IF Cardinality(vc.foundScopes) # Len(vc.requiredScopes)
       THEN ValidateReturn(vc, ErrProviderVerification("nil"))
       ELSE ValidateReturn(vc, Nil)
    /\ UNCHANGED <<now, retry, gh, ls, backend, cl, fa, repo, co>>

\* gitlab.go 31-51
GitlabValidate ==
    /\ vc.pc = "start" /\ vc.provider = "gitlab"
    /\ \E clientOk \in BOOLEAN : \E ok \in BOOLEAN : \E status \in StatusChoices :
        LET fr == [vc EXCEPT !.status = IF clientOk /\ ok THEN status ELSE 0] IN
        IF ~clientOk THEN ValidateReturn(fr, Error("failed to create Gitlab client", "e1"))
        ELSE IF ~ok THEN ValidateReturn(fr, Error("failed to connect to Gitlab", "e1"))
        ELSE IF status # StatusOK THEN ValidateReturn(fr, ErrProviderVerification("nil"))
        ELSE ValidateReturn(fr, Nil)
    /\ UNCHANGED <<now, retry, gh, ls, backend, cl, fa, repo, co>>

ValidateNext ==
    \/ GithubValidateStart
    \/ GithubValidateScope
    \/ GithubValidateCheck
    \/ GitlabValidate

(***************************************************************************)
(* The repository at the provider, as the facade operations see it:        *)
(*   secretPos  where the named secret stands in the provider's list of    *)
(*              the repository's secrets, 0 when it does not exist         *)
(*   secretNew  the secret was created by the call followed                *)
(*   tags       the names of its tags                                      *)
(*   topics     the number of topics of the project, which is what GitLab  *)
(*              reports as the tag_list of a project                       *)
(*   tip        the commit at the tip of the branch, 0 when the branch has *)
(*              no commit; commits are numbered in the order written       *)
(*   files      the files at HEAD, the tip of the default branch, as       *)
(*              <<path, text>> pairs                                       *)
(*   dev        the files at the tip of the branch "dev"                   *)
(*   visible    the commits that a read by SHA finds                       *)
(*   runs       the number of workflow runs                                *)
(*   writes     the write calls received, each [kind, round]               *)
(*   project    "none" while the project does not exist, "created" once it *)
(*              does, "protected" once its tags are protected              *)
(*   calls      the calls CreateRepo made, each [name, args, round]        *)
(***************************************************************************)
RepoNone ==
    [secretPos |-> 0, secretNew |-> FALSE, tags |-> {}, topics |-> 0, tip |-> 0,
     files |-> {}, dev |-> {}, visible |-> {}, runs |-> 0, writes |-> <<>>,
     project |-> "none", calls |-> <<>>]

Write(kind, round) == [kind |-> kind, round |-> round]

\* a call the provider received: its name, its arguments, the error it
\* answered and the round of the facade call that made it
Call(name, args, err, round) == [name |-> name, args |-> args, err |-> err, round |-> round]

\* the default branch of the repository, to which HEAD points
defaultBranch == "main"

\* GitHub lists 30 secrets per page when no page size is asked for
SecretsPerPage == 30

(***************************************************************************)
(* The facade operations AddSecretToRepo, InitialTag and                   *)
(* CreateCommitOnBranch.  fa is the frame of the one call followed:        *)
(*   round      1 for the first call, 2 for its repetition                 *)
(*   rounds     how many times the caller makes the call                   *)
(*   named      the names given are well formed: orgName and repoName not  *)
(*              empty, fullName of the form owner/repo                     *)
(*   overrideSecret, commitSha, workflowFileName   the arguments           *)
(*   content    commit.Content, as <<path, text>> pairs                    *)
(*   createRepoTimeout, waitTagTimeout   the configuration, in seconds     *)
(*   phase, rt  the retry.Retry in progress and its frame: once (timeout   *)
(*              == 0), attempt, b, t, wake, err and ret as in retry[p]     *)
(*   hasSecret  the result of hasSecret ("yes", "no"), "unknown" before it  *)
(*              returned                                                   *)
(*   respNil    the *github.Response of the last secret write is nil       *)
(*   oid        mutation.CreateCommitOnBranch.Commit.OID, 0 for ""         *)
(*   tagged     the repository had a tag when the call was made            *)
(*   got        the SHA of the commit the last GetCommit returned, 0 when  *)
(*              none did                                                   *)
(*   ret, ref   the error and the commit reference returned, 0 for ""      *)
(*   owner      the owner argument of CreateRepo                           *)
(*   login      the login of the user GetUsers returned                    *)
(*   results    what the earlier rounds returned                           *)
(***************************************************************************)
RetryState(once, t) ==
    [once |-> once, attempt |-> 1, b |-> 0, t |-> t, wake |-> 0, err |-> Nil, ret |-> None]

FacadeFrame(pc, provider, op, rounds) ==
    [pc |-> pc, provider |-> provider, op |-> op, round |-> 1, rounds |-> rounds,
     named |-> TRUE, overrideSecret |-> FALSE, commitSha |-> "", workflowFileName |-> "",
     content |-> {}, createRepoTimeout |-> 0, waitTagTimeout |-> 0,
     phase |-> "none", rt |-> RetryState(TRUE, 0),
     hasSecret |-> "unknown", respNil |-> FALSE, oid |-> 0, got |-> 0, tagged |-> FALSE,
     owner |-> "", login |-> "", branch |-> defaultBranch,
     ret |-> None, ref |-> 0, results |-> <<>>]

FacadeOff == FacadeFrame("off", "none", "none", 1)

\* errors.Wrap(err, msg)
Wrap(err, msg) == Error(msg, err.kind)

\* return err
FacadeReturn(fr, err) == [fr EXCEPT !.pc = "done", !.ret = err]

\* retry.Retry(seconds * time.Second, f) is entered (part_004 15-34)
FacadeRetry(fr, phase, seconds) ==
    [fr EXCEPT !.pc = "retry", !.phase = phase,
               !.rt = RetryState(RunOnce(seconds * Second), now + seconds * Second)]

\* the number of calls of b.Duration() from which Min * Factor^n exceeds Max
BackoffSaturation ==
    CHOOSE n \in 0 .. MaxDelay :
        BackoffUpper(n) >= MaxDelay /\ \A m \in 0 .. n - 1 : BackoffUpper(m) < MaxDelay

\* b.Duration(): the least and the greatest of the durations it can return
JitterChoices(n) ==
    {MinDelay,
     IF n >= BackoffSaturation THEN MaxDelay
     ELSE Max2(MinDelay, Min2(MaxDelay, BackoffUpper(n)))}

\* the select of part_004 35-39 lets the attempt start
FacadeMayAttempt(fr, phase) ==
    /\ fr.pc = "retry" /\ fr.phase = phase
    /\ fr.rt.once \/ FALSE \in TimerOutcomes(fr.rt.t)

\* the provider may fail a call made inside a Retry during its first attempts
ProviderMayFail(fr) == fr.rt.attempt <= MaxEnvAttempt

\* part_004 26-30 and 41-47: f(attempt) returned e
FacadeAttemptEnd(fr, e) ==
    IF e = Nil
    THEN {[fr EXCEPT !.pc = "returned", !.rt.err = Nil, !.rt.ret = Nil]}
    ELSE IF fr.rt.once
    THEN {[fr EXCEPT !.pc = "returned", !.rt.err = e, !.rt.ret = ErrRetryTimeout(e)]}
    ELSE {[fr EXCEPT !.pc = "sleeping", !.rt.err = e,
                     !.rt.attempt = NextAttempt(@), !.rt.b = @ + 1,
                     !.rt.wake = now + d] : d \in JitterChoices(fr.rt.b)}

\* part_004 36-37 and 50: the timer is ready, Retry returns
FacadeRetryTimeout ==
    /\ fa.pc = "retry" /\ ~fa.rt.once
    /\ TRUE \in TimerOutcomes(fa.rt.t)
    /\ fa' = [fa EXCEPT !.pc = "returned", !.rt.ret = ErrRetryTimeout(fa.rt.err)]
    /\ UNCHANGED <<now, retry, gh, ls, backend, cl, vc, repo, co>>

\* part_004 47: time.Sleep returns
FacadeWake ==
    /\ fa.pc = "sleeping"
    /\ now' = fa.rt.wake
    /\ fa' = [fa EXCEPT !.pc = "retry"]
    /\ UNCHANGED <<retry, gh, ls, backend, cl, vc, repo, co>>

\* the Retry of the phase has returned
FacadeReturned(phase) == fa.pc = "returned" /\ fa.phase = phase

\* the caller repeats the call with the same arguments
FacadeRepeat ==
    /\ fa.pc = "done" /\ fa.round < fa.rounds
    /\ fa' = [fa EXCEPT !.pc = "start", !.round = @ + 1, !.phase = "none",
                        !.rt = RetryState(TRUE, 0), !.hasSecret = "unknown",
                        !.respNil = FALSE, !.oid = 0, !.got = 0, !.ret = None, !.ref = 0,
                        !.tagged = repo.tags # {},
                        !.results = Append(@, [ret |-> fa.ret, ref |-> fa.ref])]
    /\ UNCHANGED <<now, retry, gh, ls, backend, cl, vc, repo, co>>

ErrRepoAlreadyConnected == Error("ErrRepoAlreadyConnected", "nil")

ErrGithubSecret(cause) == Error("ErrGithubSecret", cause.kind)

(***************************************************************************)
(* AddSecretToRepo.                                                        *)
(***************************************************************************)
\* github.go 156-172
GithubAddSecretStart ==
    /\ fa.pc = "start" /\ fa.provider = "github" /\ fa.op = "AddSecretToRepo"
    /\ IF ~fa.named
       THEN fa' = FacadeReturn(fa, Error("No org name was provided", "nil"))
       ELSE fa' = FacadeRetry(fa, "GetRepoPublicKey", fa.createRepoTimeout)
    /\ UNCHANGED <<now, retry, gh, ls, backend, cl, vc, repo, co>>

\* a call of the provider answers at once, or fails after the time its HTTP
\* client waited for the answer
CallDurations(ok) == IF ok THEN {0} ELSE {0, Second}

\* github.go 169-172: one attempt to read the public key
GithubGetRepoPublicKey ==
    /\ FacadeMayAttempt(fa, "GetRepoPublicKey")
    /\ \E e \in {Nil} \cup (IF ProviderMayFail(fa) THEN {Error("e1", "nil")} ELSE {}) :
       \E d \in CallDurations(e = Nil) :
        /\ now' = now + d
        /\ \E fr \in FacadeAttemptEnd(fa, e) :
            fa' = [fr EXCEPT !.rt.wake = IF fr.pc = "sleeping" THEN @ + d ELSE @]
    /\ UNCHANGED <<retry, gh, ls, backend, cl, vc, repo, co>>

\* github.go 174-194: the key was read or not; encrypt; without override
\* look for the secret, otherwise go on to write it
GithubAddSecretEncrypt ==
    /\ FacadeReturned("GetRepoPublicKey")
    /\ IF fa.rt.ret # Nil
       THEN fa' = FacadeReturn(fa, Wrap(fa.rt.ret, "failed to get public repo key for encryption"))
       ELSE \E encOk \in BOOLEAN :
            IF ~encOk
            THEN fa' = FacadeReturn(fa, Error("failed to encrypt secret for github actions",
                                              "errUnableToDecodePKey"))
            ELSE IF ~fa.overrideSecret
            THEN fa' = FacadeRetry(fa, "ListRepoSecrets", fa.createRepoTimeout)
            ELSE fa' = FacadeRetry(fa, "CreateOrUpdateRepoSecret", fa.createRepoTimeout)
    /\ UNCHANGED <<now, retry, gh, ls, backend, cl, vc, repo, co>>

\* github.go 632-636: one attempt to list the secrets
GithubListRepoSecrets ==
    /\ FacadeMayAttempt(fa, "ListRepoSecrets")
    /\ \E e \in {Nil} \cup (IF ProviderMayFail(fa) THEN {Error("e1", "nil")} ELSE {}) :
       \E d \in CallDurations(e = Nil) :
        /\ now' = now + d
        /\ \E fr \in FacadeAttemptEnd(fa, e) :
            fa' = [fr EXCEPT !.rt.wake = IF fr.pc = "sleeping" THEN @ + d ELSE @]
    /\ UNCHANGED <<retry, gh, ls, backend, cl, vc, repo, co>>

\* github.go 641-647: the secret is among those listed, the first page of
\* the repository's secrets
SecretListed(secretPos) == secretPos >= 1 /\ secretPos <= SecretsPerPage

\* github.go 637-647 and 184-194: hasSecret returns
GithubAddSecretHasSecret ==
    /\ FacadeReturned("ListRepoSecrets")
    /\ IF fa.rt.ret # Nil
       THEN fa' = FacadeReturn(fa, Wrap(fa.rt.ret, "failed to list repo secrets"))
       ELSE IF SecretListed(repo.secretPos)
       THEN fa' = FacadeReturn([fa EXCEPT !.hasSecret = "yes"], ErrRepoAlreadyConnected)
       ELSE fa' = FacadeRetry([fa EXCEPT !.hasSecret = "no"],
                              "CreateOrUpdateRepoSecret", fa.createRepoTimeout)
    /\ UNCHANGED <<now, retry, gh, ls, backend, cl, vc, repo, co>>

\* github.go 194-202: one attempt to write the secret
GithubCreateOrUpdateRepoSecret ==
    /\ FacadeMayAttempt(fa, "CreateOrUpdateRepoSecret")
    /\ \E ok \in {TRUE} \cup (IF ProviderMayFail(fa) THEN {FALSE} ELSE {}) :
       \E respNil \in (IF ok THEN {FALSE} ELSE BOOLEAN) : \E d \in CallDurations(ok) :
        /\ now' = now + d
        /\ \E fr \in FacadeAttemptEnd([fa EXCEPT !.respNil = respNil],
                                       IF ok THEN Nil ELSE Error("e1", "nil")) :
            fa' = [fr EXCEPT !.rt.wake = IF fr.pc = "sleeping" THEN @ + d ELSE @]
        /\ repo' = [repo EXCEPT !.writes = Append(@, Write("CreateOrUpdateRepoSecret", fa.round)),
                                !.secretPos = IF ok /\ @ = 0 THEN 1 ELSE @,
                                !.secretNew = @ \/ (ok /\ repo.secretPos = 0)]
    /\ UNCHANGED <<retry, gh, ls, backend, cl, vc, co>>

\* github.go 204-208; response.Body of a nil response is a nil dereference
GithubAddSecretEnd ==
    /\ FacadeReturned("CreateOrUpdateRepoSecret")
    /\ IF fa.rt.ret = Nil THEN fa' = FacadeReturn(fa, Nil)
       ELSE IF fa.respNil THEN fa' = [fa EXCEPT !.pc = "panicked"]
       ELSE fa' = FacadeReturn(fa, ErrGithubSecret(fa.rt.ret))
    /\ UNCHANGED <<now, retry, gh, ls, backend, cl, vc, repo, co>>

\* gitlab.go 380-394: GetProjectVariable answers with the variable, with 404
\* or with another error
GitlabHasSecretOutcomes(secretPos) ==
    (IF secretPos >= 1 THEN {"found"} ELSE {"404"}) \cup {"error"}

\* gitlab.go 406-422: the client, hasSecret, the conflict
GitlabAddSecretStart ==
    /\ fa.pc = "start" /\ fa.provider = "gitlab" /\ fa.op = "AddSecretToRepo"
    /\ \E clientOk \in BOOLEAN : \E out \in GitlabHasSecretOutcomes(repo.secretPos) :
        IF ~clientOk
        THEN fa' = FacadeReturn(fa, Error("failed to create Gitlab client", "e1"))
        ELSE IF out = "error" THEN fa' = FacadeReturn(fa, Error("e1", "nil"))
        ELSE IF ~fa.overrideSecret /\ out = "found"
        THEN fa' = FacadeReturn([fa EXCEPT !.hasSecret = "yes"], ErrRepoAlreadyConnected)
        ELSE fa' = [fa EXCEPT !.pc = "write", !.hasSecret = IF out = "found" THEN "yes" ELSE "no"]
    /\ UNCHANGED <<now, retry, gh, ls, backend, cl, vc, repo, co>>

\* gitlab.go 426-441: if hasSecret the variable is updated, else created
GitlabWriteKindCreate(hasSecret) == "CreateProjectVariable"

GitlabWriteKind(hasSecret) ==
    IF hasSecret = "yes" THEN "UpdateProjectVariable" ELSE "CreateProjectVariable"

\* gitlab.go 424-443: update the variable or create it
GitlabAddSecretWrite ==
    /\ fa.pc = "write" /\ fa.provider = "gitlab" /\ fa.op = "AddSecretToRepo"
    /\ \E ok \in BOOLEAN :
        /\ fa' = FacadeReturn(fa, IF ok THEN Nil ELSE Error("e1", "nil"))
        /\ repo' = [repo EXCEPT
                      !.writes = Append(@, Write(GitlabWriteKind(fa.hasSecret), fa.round)),
                      !.secretPos = IF ok /\ @ = 0 THEN 1 ELSE @,
                                !.secretNew = @ \/ (ok /\ repo.secretPos = 0)]
    /\ UNCHANGED <<now, retry, gh, ls, backend, cl, vc, co>>

AddSecretNext ==
    \/ GithubAddSecretStart
    \/ GithubGetRepoPublicKey
    \/ GithubAddSecretEncrypt
    \/ GithubListRepoSecrets
    \/ GithubAddSecretHasSecret
    \/ GithubCreateOrUpdateRepoSecret
    \/ GithubAddSecretEnd
    \/ GitlabAddSecretStart
    \/ GitlabAddSecretWrite
    \/ FacadeRetryTimeout
    \/ FacadeWake

(***************************************************************************)
(* InitialTag.                                                             *)
(***************************************************************************)
defaultTag == "v0.0.0"

\* github.go 425-457: the name, GetRepo, and for an empty commitSha the tags
\* and the tip of the default branch; response.StatusCode of a nil response
\* is a nil dereference
GithubInitialTagStart ==
    /\ fa.pc = "start" /\ fa.provider = "github" /\ fa.op = "InitialTag"
    /\ \E repoOk \in BOOLEAN : \E tagsOk \in BOOLEAN : \E refOut \in {"ok", "error", "no response"} :
        IF ~fa.named THEN fa' = FacadeReturn(fa, Error("invalid full github repo name", "nil"))
        ELSE IF ~repoOk THEN fa' = FacadeReturn(fa, Error("failed to get repo", "e1"))
        ELSE IF fa.commitSha # "" THEN fa' = [fa EXCEPT !.pc = "createRef"]
        ELSE IF ~tagsOk THEN fa' = FacadeReturn(fa, Error("failed to list tags for repo", "e1"))
        ELSE IF repo.tags # {} THEN fa' = FacadeReturn(fa, Nil)
        ELSE IF refOut = "no response" THEN fa' = [fa EXCEPT !.pc = "panicked"]
        ELSE IF refOut = "error" \/ repo.tip = 0
        THEN fa' = FacadeReturn(fa, Error("repo seems to be empty", "e1"))
        ELSE fa' = [fa EXCEPT !.pc = "createRef"]
    /\ UNCHANGED <<now, retry, gh, ls, backend, cl, vc, repo, co>>

\* the provider creates the tag unless it fails or the tag exists
CreateTagOutcomes == IF defaultTag \in repo.tags THEN {FALSE} ELSE BOOLEAN

\* github.go 459-483: the createRef mutation, then forceRerunWorkflow when a
\* workflow file is named
GithubInitialTagCreateRef ==
    /\ fa.pc = "createRef" /\ fa.provider = "github" /\ fa.op = "InitialTag"
    /\ \E ok \in CreateTagOutcomes :
        /\ repo' = [repo EXCEPT !.writes = Append(@, Write("createRef", fa.round)),
                                !.tags = IF ok THEN @ \cup {defaultTag} ELSE @]
        /\ IF ~ok THEN fa' = FacadeReturn(fa, Error("failed to create commit", "e1"))
           ELSE IF fa.workflowFileName # ""
           THEN fa' = FacadeRetry(fa, "ListRepositoryWorkflowRuns", fa.waitTagTimeout)
           ELSE fa' = FacadeReturn(fa, Nil)
    /\ UNCHANGED <<now, retry, gh, ls, backend, cl, vc, co>>

\* github.go 486-495: one look for a workflow run; a run may have started
\* since the tag was created
GithubListWorkflowRuns ==
    /\ FacadeMayAttempt(fa, "ListRepositoryWorkflowRuns")
    /\ \E started \in (IF ProviderMayFail(fa) THEN BOOLEAN ELSE {FALSE}) :
       \E ok \in {TRUE} \cup (IF ProviderMayFail(fa) THEN {FALSE} ELSE {}) :
        LET runs == IF started THEN repo.runs + 1 ELSE repo.runs IN
        /\ repo' = [repo EXCEPT !.runs = IF started THEN 1 ELSE @]
        /\ fa' \in FacadeAttemptEnd(fa,
                     IF ~ok THEN Error("e1", "nil")
                     ELSE IF runs = 0 THEN Error("No workflows were triggered", "nil")
                     ELSE Nil)
    /\ UNCHANGED <<now, retry, gh, ls, backend, cl, vc, co>>

\* github.go 497: the Retry of the poll returned nil, a run was seen
RunObservedNever(ret) == FALSE

RunObserved(ret) == ret = Nil

\* github.go 497-508: no run was seen, dispatch the workflow
GithubForceRerunEnd ==
    /\ FacadeReturned("ListRepositoryWorkflowRuns")
    /\ IF RunObserved(fa.rt.ret)
       THEN fa' = FacadeReturn(fa, Nil) /\ UNCHANGED repo
       ELSE \E ok \in BOOLEAN :
            /\ repo' = [repo EXCEPT
                          !.writes = Append(@, Write("CreateWorkflowDispatchEventByFileName", fa.round)),
                          !.runs = IF ok THEN @ + 1 ELSE @]
            /\ fa' = FacadeReturn(fa, IF ok THEN Nil ELSE Error("e1", "nil"))
    /\ UNCHANGED <<now, retry, gh, ls, backend, cl, vc, co>>

\* gitlab.go 345-367: the client, the name, the project and its TagList
GitlabInitialTagStart ==
    /\ fa.pc = "start" /\ fa.provider = "gitlab" /\ fa.op = "InitialTag"
    /\ \E clientOk \in BOOLEAN : \E projOk \in BOOLEAN :
        IF ~clientOk THEN fa' = FacadeReturn(fa, Error("failed to create Gitlab client", "e1"))
        ELSE IF ~fa.named THEN fa' = FacadeReturn(fa, Error("invalid full gitlab repo name", "nil"))
        ELSE IF ~projOk THEN fa' = FacadeReturn(fa, Error("e1", "nil"))
        ELSE IF repo.topics > 0 THEN fa' = FacadeReturn(fa, Nil)
        ELSE fa' = [fa EXCEPT !.pc = "createTag"]
    /\ UNCHANGED <<now, retry, gh, ls, backend, cl, vc, repo, co>>

\* gitlab.go 369-377
GitlabInitialTagCreateTag ==
    /\ fa.pc = "createTag" /\ fa.provider = "gitlab" /\ fa.op = "InitialTag"
    /\ \E ok \in CreateTagOutcomes :
        /\ repo' = [repo EXCEPT !.writes = Append(@, Write("CreateTag", fa.round)),
                                !.tags = IF ok THEN @ \cup {defaultTag} ELSE @]
        /\ fa' = FacadeReturn(fa, IF ok THEN Nil ELSE Error("e1", "nil"))
    /\ UNCHANGED <<now, retry, gh, ls, backend, cl, vc, co>>

InitialTagNext ==
    \/ GithubInitialTagStart
    \/ GithubInitialTagCreateRef
    \/ GithubListWorkflowRuns
    \/ GithubForceRerunEnd
    \/ GitlabInitialTagStart
    \/ GitlabInitialTagCreateTag
    \/ FacadeRetryTimeout
    \/ FacadeWake
    \/ FacadeRepeat

(***************************************************************************)
(* CreateCommitOnBranch.                                                   *)
(***************************************************************************)
ErrEmptyRepo == Error("ErrEmptyRepo", "nil")

ErrCommitNotFound == Error("ErrCommitNotFound", "nil")

\* the text of the file at a path, "" when there is none
TextAt(files, path) ==
    IF \E f \in files : f[1] = path THEN (CHOOSE f \in files : f[1] = path)[2] ELSE ""

\* github.go 521-526: the first entry that ranging over commit.Content
\* yields, any of them; empty strings for an empty map
FirstEntries(content) == IF content = {} THEN {<<"", "">>} ELSE content

\* github.go 565: the branch has no commit
RefEmptyNever(ref) == FALSE

RefEmpty(ref) == ref = 0

\* github.go 547 and 569-573: the file at HEAD:<path> has the content to
\* commit
ContentMatches(configContent, content) == configContent # "" /\ configContent = content

\* the files once the additions of the commit are applied
Committed(files, content) ==
    {f \in files : ~\E c \in content : c[1] = f[1]} \cup content

\* the files at the tip of a branch
BranchFiles(r, branch) == IF branch = defaultBranch THEN r.files ELSE r.dev

\* github.go 597-604, gitlab.go 476: the commit is made on commit.Branch
CommitTo(r, branch, content) ==
    IF branch = defaultBranch THEN [r EXCEPT !.files = Committed(@, content)]
    ELSE [r EXCEPT !.dev = Committed(@, content)]

\* github.go 511-558
GithubCreateCommitStart ==
    /\ fa.pc = "start" /\ fa.provider = "github" /\ fa.op = "CreateCommitOnBranch"
    /\ fa' = FacadeRetry(fa, "createCommitOnBranch", fa.createRepoTimeout)
    /\ UNCHANGED <<now, retry, gh, ls, backend, cl, vc, repo, co>>

\* github.go 558-583: one attempt: the query, the empty branch, the
\* comparison and the mutation; the branch may get its first commit between
\* two attempts
GithubCreateCommitAttempt ==
    /\ FacadeMayAttempt(fa, "createCommitOnBranch")
    /\ \E queryOk \in {TRUE} \cup (IF ProviderMayFail(fa) THEN {FALSE} ELSE {}) :
       \E initialised \in (IF repo.tip = 0 /\ fa.rt.attempt > 1 /\ ProviderMayFail(fa)
                           THEN BOOLEAN ELSE {FALSE}) :
       \E entry \in FirstEntries(fa.content) :
       \E writeOk \in {TRUE} \cup (IF ProviderMayFail(fa) THEN {FALSE} ELSE {}) :
        LET ref == IF initialised THEN 1 ELSE repo.tip
            seen == [repo EXCEPT !.tip = ref]
        IN  IF ~queryOk
            THEN /\ fa' \in FacadeAttemptEnd(fa, Error("failed to query latest commit", "e1"))
                 /\ repo' = seen
            ELSE IF RefEmpty(ref)
            THEN /\ fa' \in FacadeAttemptEnd(fa, ErrEmptyRepo)
                 /\ repo' = seen
            ELSE IF ContentMatches(TextAt(repo.files, entry[1]), entry[2])
            THEN /\ fa' \in FacadeAttemptEnd(fa, Nil)
                 /\ repo' = seen
            ELSE IF ~writeOk
            THEN /\ fa' \in FacadeAttemptEnd(fa, Error("failed to create commit", "e1"))
                 /\ repo' = [seen EXCEPT !.writes = Append(@, Write("createCommitOnBranch", fa.round))]
            ELSE /\ fa' \in FacadeAttemptEnd([fa EXCEPT !.oid = ref + 1], Nil)
                 /\ repo' = CommitTo([seen EXCEPT
                                !.writes = Append(@, Write("createCommitOnBranch", fa.round)),
                                !.tip = ref + 1],
                             fa.branch, fa.content)
    /\ UNCHANGED <<now, retry, gh, ls, backend, cl, vc, co>>

\* github.go 585-593 and 661-664
GithubCreateCommitEnd ==
    /\ FacadeReturned("createCommitOnBranch")
    /\ IF fa.rt.ret # Nil THEN fa' = FacadeReturn(fa, fa.rt.ret)
       ELSE IF fa.oid = 0 THEN fa' = FacadeReturn(fa, Nil)
       ELSE fa' = FacadeRetry(fa, "GetCommit", fa.waitTagTimeout)
    /\ UNCHANGED <<now, retry, gh, ls, backend, cl, vc, repo, co>>

\* what a read of the commit by SHA answers: the commit once it is visible,
\* before that an error or another commit
GetCommitOutcomes(visible) == IF visible THEN {"same"} ELSE {"error", "other"}

\* github.go 664-675: one attempt of waitForCommit; the commit may become
\* visible between two attempts
GithubGetCommit ==
    /\ FacadeMayAttempt(fa, "GetCommit")
    /\ \E appears \in (IF ProviderMayFail(fa) THEN BOOLEAN ELSE {FALSE}) :
        LET visible == IF appears THEN repo.visible \cup {fa.oid} ELSE repo.visible IN
        /\ repo' = [repo EXCEPT !.visible = visible]
        /\ \E out \in GetCommitOutcomes(fa.oid \in visible) :
            IF out = "error" THEN fa' \in FacadeAttemptEnd(fa, Error("e1", "nil"))
            ELSE IF out = "other" THEN fa' \in FacadeAttemptEnd(fa, ErrCommitNotFound)
            ELSE fa' \in FacadeAttemptEnd([fa EXCEPT !.got = fa.oid], Nil)
    /\ UNCHANGED <<now, retry, gh, ls, backend, cl, vc, co>>

\* github.go 677: return sha, err
GithubWaitForCommitEnd ==
    /\ FacadeReturned("GetCommit")
    /\ fa' = [FacadeReturn(fa, fa.rt.ret) EXCEPT !.ref = fa.oid]
    /\ UNCHANGED <<now, retry, gh, ls, backend, cl, vc, repo, co>>

\* the paths of commit.Content
Paths(content) == {c[1] : c \in content}

\* the orders in which ranging over a map may yield its keys
Orders(S) ==
    {o \in [1 .. Cardinality(S) -> S] : \A i, j \in 1 .. Cardinality(S) : o[i] = o[j] => i = j}

\* a file exists on the branch
FileExists(files, path) == \E f \in files : f[1] = path

\* what GetFile answers: the file, a 404 when there is none, or another
\* error such as a failure to connect
GetFileOutcomes(exists) == (IF exists THEN {"found"} ELSE {"404"}) \cup {"error"}

\* the error GetProjectFile returns
GetFileError(out) ==
    IF out = "found" THEN Nil
    ELSE IF out = "404" THEN Error("404 Not Found", "nil") ELSE Error("e1", "nil")

\* gitlab.go 458-464: update, or create when the lookup returned an error
CommitAction(err) == IF err = Nil THEN "update" ELSE "create"

\* the provider rejects the creation of a file that exists and the update
\* of one that does not; it may fail a commit for other reasons
CreateCommitOutcomes(actions, files) ==
    IF \A a \in actions : (a[2] = "update") = FileExists(files, a[1])
    THEN BOOLEAN ELSE {FALSE}

\* gitlab.go 446-484: the client, a lookup of each file to choose between
\* create and update, and the commit
GitlabCreateCommit ==
    /\ fa.pc = "start" /\ fa.provider = "gitlab" /\ fa.op = "CreateCommitOnBranch"
    /\ \E clientOk \in BOOLEAN :
        IF ~clientOk
        THEN /\ fa' = FacadeReturn(fa, Error("failed to create Gitlab client", "e1"))
             /\ UNCHANGED repo
        ELSE \E order \in Orders(Paths(fa.content)) :
             \E outs \in [Paths(fa.content) -> {"found", "404", "error"}] :
             LET files == BranchFiles(repo, fa.branch)
                 lookups == [i \in 1 .. Len(order) |->
                                Call("GetProjectFile", order[i], GetFileError(outs[order[i]]),
                                     fa.round)]
                 actions == {<<path, CommitAction(GetFileError(outs[path]))>> :
                                path \in Paths(fa.content)}
             IN  /\ \A path \in Paths(fa.content) :
                        outs[path] \in GetFileOutcomes(FileExists(files, path))
                 /\ \E ok \in CreateCommitOutcomes(actions, files) :
                     LET err == IF ok THEN Nil ELSE Error("e1", "nil")
                         called == [repo EXCEPT
                                      !.calls = @ \o lookups
                                                  \o <<Call("CreateCommit", actions, err, fa.round)>>,
                                      !.writes = Append(@, Write("CreateCommit", fa.round)),
                                      !.tip = IF ok THEN @ + 1 ELSE @]
                     IN  /\ fa' = FacadeReturn(fa, err)
                         /\ repo' = IF ok THEN CommitTo(called, fa.branch, fa.content)
                                    ELSE called
    /\ UNCHANGED <<now, retry, gh, ls, backend, cl, vc, co>>

CreateCommitNext ==
    \/ GithubCreateCommitStart
    \/ GithubCreateCommitAttempt
    \/ GithubCreateCommitEnd
    \/ GithubGetCommit
    \/ GithubWaitForCommitEnd
    \/ GitlabCreateCommit
    \/ FacadeRetryTimeout
    \/ FacadeWake
    \/ FacadeRepeat

\* the values of commit.Content tried
ContentChoices == {{}, {<<"f1", "a">>}, {<<"f1", "">>}, {<<"f1", "a">>, <<"f2", "b">>}}

\* the files at the tip of a branch tried
FilesChoices == {{}, {<<"f1", "a">>}, {<<"f1", "c">>}}

\* the values of commit.Branch tried
BranchChoices == {defaultBranch, "dev"}

(***************************************************************************)
(* CreateRepo.  The repository asked for is named repoName.                *)
(***************************************************************************)
repoName == "r"

\* the provider call is made and answered with err
Issue(name, args, err) ==
    [repo EXCEPT !.calls = Append(@, Call(name, args, err, fa.round))]

\* gitlab.go 307-311: the client
GitlabCreateRepoStart ==
    /\ fa.pc = "start" /\ fa.provider = "gitlab" /\ fa.op = "CreateRepo"
    /\ \E clientOk \in BOOLEAN :
        fa' = IF clientOk THEN [fa EXCEPT !.pc = "GetNamespace"]
              ELSE FacadeReturn(fa, Wrap(Error("e1", "nil"), "failed to create Gitlab client"))
    /\ UNCHANGED <<now, retry, gh, ls, backend, cl, vc, repo, co>>

\* gitlab.go 316, 328: if err != nil
StepFailedNever(err) == FALSE

StepFailed(err) == err # Nil

\* gitlab.go 315-318: client.GetNamespace(owner)
GitlabGetNamespace ==
    /\ fa.pc = "GetNamespace"
    /\ \E err \in {Nil, Error("e1", "nil")} :
        /\ fa' = IF StepFailed(err) THEN FacadeReturn(fa, err)
                 ELSE [fa EXCEPT !.pc = "CreateProject"]
        /\ repo' = Issue("GetNamespace", <<fa.owner>>, err)
    /\ UNCHANGED <<now, retry, gh, ls, backend, cl, vc, co>>

\* the provider's answers to CreateProject: it rejects the creation of a
\* project that exists, and may fail to create one that does not
CreateProjectOutcomes(project) ==
    IF project # "none" THEN {Error("has already been taken", "nil")}
    ELSE {Nil, Error("e2", "nil")}

\* gitlab.go 320-330: client.CreateProject(opt)
GitlabCreateProject ==
    /\ fa.pc = "CreateProject"
    /\ \E err \in CreateProjectOutcomes(repo.project) :
        /\ fa' = IF StepFailed(err) THEN FacadeReturn(fa, err)
                 ELSE [fa EXCEPT !.pc = "ProtectRepositoryTags"]
        /\ repo' = [Issue("CreateProject", <<fa.owner, repoName, "public">>, err) EXCEPT
                       !.project = IF err = Nil THEN "created" ELSE @]
    /\ UNCHANGED <<now, retry, gh, ls, backend, cl, vc, co>>

\* gitlab.go 332-342: client.ProtectRepositoryTags(owner+"/"+name, opt);
\* its error is what CreateRepo returns
GitlabProtectRepositoryTags ==
    /\ fa.pc = "ProtectRepositoryTags"
    /\ \E err \in {Nil, Error("e3", "nil")} :
        /\ fa' = FacadeReturn(fa, err)
        /\ repo' = [Issue("ProtectRepositoryTags",
                          <<fa.owner, "/", repoName, "v*", "MaintainerPermissions">>, err) EXCEPT
                       !.project = IF err = Nil /\ @ = "created" THEN "protected" ELSE @]
    /\ UNCHANGED <<now, retry, gh, ls, backend, cl, vc, co>>

\* the logins tried for the authenticated user
LoginChoices == {"alice", "bob"}

\* github.go 402-407: githubClient.GetUsers(ctx, "")
GithubCreateRepoStart ==
    /\ fa.pc = "start" /\ fa.provider = "github" /\ fa.op = "CreateRepo"
    /\ \E err \in {Nil, Error("e1", "nil")} : \E login \in LoginChoices :
        /\ fa' = IF err = Nil THEN [fa EXCEPT !.pc = "CreateRepo", !.login = login]
                 ELSE FacadeReturn(fa, Wrap(err, "failed to read user from github"))
        /\ repo' = Issue("GetUsers", <<"">>, err)
    /\ UNCHANGED <<now, retry, gh, ls, backend, cl, vc, co>>

\* github.go 409-411: the owner passed on
OwnerPassedUnchanged(login, owner) == owner

OwnerPassed(login, owner) == IF login = owner THEN "" ELSE owner

\* github.go 413-421: githubClient.CreateRepo(ctx, owner, ...)
GithubCreateRepo ==
    /\ fa.pc = "CreateRepo"
    /\ \E err \in {Nil, Error("e2", "nil")} :
        /\ fa' = FacadeReturn(fa, IF err = Nil THEN Nil ELSE Wrap(err, "failed to create repo"))
        /\ repo' = [Issue("CreateRepo", <<OwnerPassed(fa.login, fa.owner), repoName>>, err) EXCEPT
                       !.project = IF err = Nil THEN "created" ELSE @]
    /\ UNCHANGED <<now, retry, gh, ls, backend, cl, vc, co>>

CreateRepoNext ==
    \/ GitlabCreateRepoStart
    \/ GitlabGetNamespace
    \/ GitlabCreateProject
    \/ GitlabProtectRepositoryTags
    \/ GithubCreateRepoStart
    \/ GithubCreateRepo
    \/ FacadeRepeat

\* the owners tried
OwnerChoices == {"", "alice", "Alice", "org"}

\* the positions of the secret tried
SecretPosChoices == {0, 1, SecretsPerPage, SecretsPerPage + 1}

\* the configured timeouts tried, in seconds
SecondsChoices == {0, 1}

GhOff == GhFrame("off", 0, 0)

\* one invocation of the wrapper, with any configuration
GhInit ==
    /\ now = 0 /\ co = FacadeOff
    /\ retry = [p \in Procs |-> RetryOff]
    /\ \E tm \in 0 .. MaxRateLimitTimeout : \E rc \in 0 .. MaxRetryCount :
        gh = [p \in Procs |-> IF p = 1 THEN GhFrame("start", tm, rc) ELSE GhOff]
    /\ ls = ListOff
    /\ backend = Backend(0, {}, {})
    /\ cl = ClientOff /\ vc = ValidateOff /\ fa = FacadeOff /\ repo = RepoNone

SpecGh == GhInit /\ [][GhNext]_vars

\* one invocation of Retry, with any of the timeouts
RetryInit ==
    /\ now = 0 /\ co = FacadeOff
    /\ \E tm \in TimeoutChoices :
        retry = [p \in Procs |-> IF p = 1 THEN RetryFrame("start", tm) ELSE RetryOff]
    /\ gh = [p \in Procs |-> GhOff]
    /\ ls = ListOff
    /\ backend = Backend(0, {}, {})
    /\ cl = ClientOff /\ vc = ValidateOff /\ fa = FacadeOff /\ repo = RepoNone

SpecRetry == RetryInit /\ [][RetryNext]_vars

\* one list operation, with any request, against any provider list
ListInit ==
    /\ now = 0 /\ co = FacadeOff
    /\ retry = [p \in Procs |-> RetryOff]
    /\ gh = [p \in Procs |-> GhOff]
    /\ \E provider \in {"github", "gitlab"} : \E op \in {"ListOrgs", "ListRepos"} :
       \E page \in PageChoices : \E isUser \in BOOLEAN :
        /\ (isUser => provider = "gitlab" /\ op = "ListRepos")
        /\ ls = ListFrame("start", provider, op, page, isUser)
    /\ \E n \in CountChoices : \E other \in OtherChoices :
        /\ other \subseteq 1 .. n
        /\ (other # {} => ls.isUser)
        /\ backend = Backend(n, other, {})
    /\ cl = ClientOff /\ vc = ValidateOff /\ fa = FacadeOff /\ repo = RepoNone

SpecList == ListInit /\ [][ListNext]_vars

\* one paging caller, with any page size, against any provider list
ClientInit ==
    /\ now = 0 /\ co = FacadeOff
    /\ retry = [p \in Procs |-> RetryOff]
    /\ gh = [p \in Procs |-> GhOff]
    /\ ls = ListOff
    /\ \E provider \in {"github", "gitlab"} : \E op \in {"ListOrgs", "ListRepos"} :
       \E size \in ClientSizeChoices : \E isUser \in BOOLEAN :
        /\ (isUser => provider = "gitlab" /\ op = "ListRepos")
        /\ cl = ClientFrame("next", provider, op, isUser, size)
    /\ \E n \in CountChoices : backend = Backend(n, {}, {})
    /\ vc = ValidateOff /\ fa = FacadeOff /\ repo = RepoNone

SpecClient == ClientInit /\ [][ClientNext]_vars

\* one call of ValidateConnection, with any required scopes, against any
\* reply of the provider
ValidateInit ==
    /\ now = 0 /\ co = FacadeOff
    /\ retry = [p \in Procs |-> RetryOff]
    /\ gh = [p \in Procs |-> GhOff]
    /\ ls = ListOff
    /\ backend = Backend(0, {}, {})
    /\ cl = ClientOff
    /\ \E provider \in {"github", "gitlab"} : \E req \in RequiredChoices :
       \E header \in HeaderChoices :
        vc = ValidateFrame("start", provider, req, header)
    /\ fa = FacadeOff /\ repo = RepoNone

SpecValidate == ValidateInit /\ [][ValidateNext]_vars

\* one call of AddSecretToRepo, with any arguments, on any repository
AddSecretInit ==
    /\ now = 0 /\ co = FacadeOff
    /\ retry = [p \in Procs |-> RetryOff]
    /\ gh = [p \in Procs |-> GhOff]
    /\ ls = ListOff
    /\ backend = Backend(0, {}, {})
    /\ cl = ClientOff /\ vc = ValidateOff
    /\ \E provider \in {"github", "gitlab"} : \E named \in BOOLEAN :
       \E override \in BOOLEAN : \E seconds \in SecondsChoices :
        /\ (provider = "gitlab" => named /\ seconds = 0)
        /\ fa = [FacadeFrame("start", provider, "AddSecretToRepo", 1) EXCEPT
                    !.named = named, !.overrideSecret = override,
                    !.createRepoTimeout = seconds]
    /\ \E pos \in SecretPosChoices : repo = [RepoNone EXCEPT !.secretPos = pos]

SpecAddSecret == AddSecretInit /\ [][AddSecretNext]_vars

\* InitialTag called once or twice, with any arguments, on any repository
InitialTagInit ==
    /\ now = 0 /\ co = FacadeOff
    /\ retry = [p \in Procs |-> RetryOff]
    /\ gh = [p \in Procs |-> GhOff]
    /\ ls = ListOff
    /\ backend = Backend(0, {}, {})
    /\ cl = ClientOff /\ vc = ValidateOff
    /\ \E provider \in {"github", "gitlab"} : \E named \in BOOLEAN : \E rounds \in {1, 2} :
       \E sha \in {"", "s1"} : \E wf \in {"", "w"} : \E seconds \in SecondsChoices :
       \E tagged \in BOOLEAN :
        /\ (provider = "gitlab" => sha = "" /\ seconds = 0)
        /\ (seconds # 0 => wf # "" /\ named /\ rounds = 1)
        /\ fa = [FacadeFrame("start", provider, "InitialTag", rounds) EXCEPT
                    !.named = named, !.commitSha = sha, !.workflowFileName = wf,
                    !.waitTagTimeout = seconds, !.tagged = tagged]
    /\ \E topics \in {0, 1} : \E tip \in {0, 1} :
        repo = [RepoNone EXCEPT !.tags = IF fa.tagged THEN {"v1"} ELSE {},
                                !.topics = topics, !.tip = tip]

SpecInitialTag == InitialTagInit /\ [][InitialTagNext]_vars

\* CreateCommitOnBranch called once or twice, with any content, on any
\* repository
CreateCommitInit ==
    /\ now = 0 /\ co = FacadeOff
    /\ retry = [p \in Procs |-> RetryOff]
    /\ gh = [p \in Procs |-> GhOff]
    /\ ls = ListOff
    /\ backend = Backend(0, {}, {})
    /\ cl = ClientOff /\ vc = ValidateOff
    /\ \E provider \in {"github", "gitlab"} : \E rounds \in {1, 2} :
       \E content \in ContentChoices : \E create \in SecondsChoices : \E wait \in SecondsChoices :
       \E branch \in BranchChoices :
        /\ (provider = "gitlab" => create = 0 /\ wait = 0)
        /\ (create # 0 \/ wait # 0 =>
                rounds = 1 /\ content = {<<"f1", "a">>} /\ branch = defaultBranch)
        /\ fa = [FacadeFrame("start", provider, "CreateCommitOnBranch", rounds) EXCEPT
                    !.content = content, !.createRepoTimeout = create,
                    !.waitTagTimeout = wait, !.branch = branch]
    /\ \E tip \in {0, 1} : \E files \in FilesChoices : \E dev \in FilesChoices :
        /\ (tip = 0 => files = {} /\ dev = {})
        /\ (fa.branch = defaultBranch => dev = {})
        /\ repo = [RepoNone EXCEPT !.tip = tip, !.files = files, !.dev = dev]

SpecCreateCommit == CreateCommitInit /\ [][CreateCommitNext]_vars

\* CreateRepo called up to MaxRounds times with the same owner and name, the
\* project existing already or not
CreateRepoInit ==
    /\ now = 0 /\ co = FacadeOff
    /\ retry = [p \in Procs |-> RetryOff]
    /\ gh = [p \in Procs |-> GhOff]
    /\ ls = ListOff
    /\ backend = Backend(0, {}, {})
    /\ cl = ClientOff /\ vc = ValidateOff
    /\ \E provider \in {"github", "gitlab"} : \E rounds \in 1 .. MaxRounds :
       \E owner \in OwnerChoices :
        fa = [FacadeFrame("start", provider, "CreateRepo", rounds) EXCEPT !.owner = owner]
    /\ \E project \in {"none", "created"} : repo = [RepoNone EXCEPT !.project = project]

SpecCreateRepo == CreateRepoInit /\ [][CreateRepoNext]_vars

\* one call of Profile, against any list of projects
ProfileInit ==
    /\ now = 0 /\ co = FacadeOff
    /\ retry = [p \in Procs |-> RetryOff]
    /\ gh = [p \in Procs |-> GhOff]
    /\ ls = ListFrame("start", "gitlab", "Profile", <<>>, TRUE)
    /\ \E n \in ProfileCountChoices : \E other \in OtherChoices :
       \E ownerless \in OwnerlessChoices :
        /\ other \cup ownerless \subseteq 1 .. n
        /\ backend = Backend(n, other, ownerless)
    /\ cl = ClientOff /\ vc = ValidateOff /\ fa = FacadeOff /\ repo = RepoNone

SpecProfile == ProfileInit /\ [][ProfileNext]_vars

\* the timeouts of Retry tried for two invocations at once
ConcurrentTimeoutChoices == {0, MinDelay, 2 * MinDelay}

\* the values of RateLimitRetryCount tried for two invocations at once
ConcurrentRetryCountChoices == {1, 2}

\* two invocations of Retry at once, the longest timeout in the first, or
\* two invocations of withSecondaryRateLimitRetry on one githubInteraction
\* at once
ConcurrentInit ==
    /\ now = 0 /\ co = FacadeOff
    /\ \E both \in {"Retry", "withSecondaryRateLimitRetry"} :
        IF both = "Retry"
        THEN /\ \E tm \in [Procs -> ConcurrentTimeoutChoices] :
                    /\ tm[2] <= MinDelay
                    /\ retry = [p \in Procs |-> RetryFrame("start", tm[p])]
             /\ gh = [p \in Procs |-> GhOff]
        ELSE /\ retry = [p \in Procs |-> RetryOff]
             /\ \E tm \in SecondsChoices : \E rc \in ConcurrentRetryCountChoices :
                    gh = [p \in Procs |-> GhFrame("start", tm, rc)]
    /\ ls = ListOff
    /\ backend = Backend(0, {}, {})
    /\ cl = ClientOff /\ vc = ValidateOff /\ fa = FacadeOff /\ repo = RepoNone

ConcurrentNext ==
    \/ RetryNext
    \/ GhNext

SpecConcurrent == ConcurrentInit /\ [][ConcurrentNext]_vars

\* the retry counts tried, the zero value among them
TerminatesRetryCountChoices == {0, 1, 2}

\* one invocation of Retry or of withSecondaryRateLimitRetry, the attempted
\* call returning every time it is invoked and time.Sleep returning: a
\* step that can be taken is taken
TerminatesInit ==
    /\ now = 0 /\ co = FacadeOff
    /\ \E both \in {"Retry", "withSecondaryRateLimitRetry"} :
        IF both = "Retry"
        THEN /\ \E tm \in ConcurrentTimeoutChoices :
                    retry = [p \in Procs |-> IF p = 1 THEN RetryFrame("start", tm) ELSE RetryOff]
             /\ gh = [p \in Procs |-> GhOff]
        ELSE /\ retry = [p \in Procs |-> RetryOff]
             /\ \E tm \in SecondsChoices : \E rc \in TerminatesRetryCountChoices :
                    gh = [p \in Procs |-> IF p = 1 THEN GhFrame("start", tm, rc) ELSE GhOff]
    /\ ls = ListOff
    /\ backend = Backend(0, {}, {})
    /\ cl = ClientOff /\ vc = ValidateOff /\ fa = FacadeOff /\ repo = RepoNone

SpecTerminates ==
    TerminatesInit /\ [][ConcurrentNext]_vars /\ WF_vars(ConcurrentNext)

(***************************************************************************)
(* Two facade calls on one repository at once.  Each call runs the code of *)
(* its operation on its own frame; `fa` is the frame of the call that is   *)
(* running and `co` the frame of the call that is not, and the scheduler   *)
(* may pass from one to the other between any two provider calls.  The     *)
(* calls are told apart by `round`, 1 and 2.                               *)
(***************************************************************************)
\* the scheduler runs the other call
Yield ==
    /\ co.pc \notin {"off", "done", "panicked"}
    /\ fa' = co /\ co' = fa
    /\ UNCHANGED <<now, retry, gh, ls, backend, cl, vc, repo>>

\* two calls of GitHub InitialTag with a workflow file, or two calls of
\* AddSecretToRepo without override on either provider, with the timeouts
\* of the zero-value Config, on a repository with a commit, no tag and no
\* such secret
TwoCallsInit ==
    /\ now = 0
    /\ retry = [p \in Procs |-> RetryOff]
    /\ gh = [p \in Procs |-> GhOff]
    /\ ls = ListOff
    /\ backend = Backend(0, {}, {})
    /\ cl = ClientOff /\ vc = ValidateOff
    /\ \E call \in {<<"github", "InitialTag">>, <<"github", "AddSecretToRepo">>,
                    <<"gitlab", "AddSecretToRepo">>} :
       \E sha \in (IF call[2] = "InitialTag" THEN {"", "s1"} ELSE {""}) :
       \E wf \in (IF call[2] = "InitialTag" THEN {"w"} ELSE {""}) :
        /\ fa = [FacadeFrame("start", call[1], call[2], 1) EXCEPT
                    !.commitSha = sha, !.workflowFileName = wf]
        /\ co = [fa EXCEPT !.round = 2, !.rounds = 2]
    /\ repo = [RepoNone EXCEPT !.tip = 1]

TwoCallsNext ==
    \/ GithubInitialTagStart
    \/ GithubInitialTagCreateRef
    \/ GithubListWorkflowRuns
    \/ GithubForceRerunEnd
    \/ GithubAddSecretStart
    \/ GithubGetRepoPublicKey
    \/ GithubAddSecretEncrypt
    \/ GithubListRepoSecrets
    \/ GithubAddSecretHasSecret
    \/ GithubCreateOrUpdateRepoSecret
    \/ GithubAddSecretEnd
    \/ GitlabAddSecretStart
    \/ GitlabAddSecretWrite
    \/ Yield

SpecTwoCalls == TwoCallsInit /\ [][TwoCallsNext]_vars

(***************************************************************************)
(* What an invocation did, read from its log.                              *)
(***************************************************************************)
\* the events of one kind, in order
Events(log, kind) == SelectSeq(log, LAMBDA e : e[1] = kind)

\* the attempt numbers passed to the function, in order
AttemptsOf(log) == [i \in DOMAIN Events(log, "call") |-> Events(log, "call")[i][2]]

\* the errors the function returned, in order
ReturnsOf(log) == [i \in DOMAIN Events(log, "ret") |-> Events(log, "ret")[i][2]]

RetryRunning(p) == retry[p].pc # "off"
GhRunning(p) == gh[p].pc # "off"

(***************************************************************************)
(* C1.  Retry with timeout == 0 invokes the function exactly once, with    *)
(* attempt number 1, and never sleeps; it returns nil when that call       *)
(* returns nil and an ErrRetryTimeout wrapping the call's error otherwise. *)
(***************************************************************************)
C1_RetryZeroRunsOnce ==
    \A p \in Procs :
        (RetryRunning(p) /\ retry[p].timeout = 0) =>
            LET fr == retry[p] IN
            /\ Len(AttemptsOf(fr.log)) <= 1
            /\ \A i \in DOMAIN AttemptsOf(fr.log) : AttemptsOf(fr.log)[i] = 1
            /\ Events(fr.log, "sleep") = <<>>
            /\ fr.pc = "done" =>
                /\ AttemptsOf(fr.log) = <<1>>
                /\ Len(ReturnsOf(fr.log)) = 1
                /\ fr.ret = IF ReturnsOf(fr.log)[1] = Nil
                            THEN Nil
                            ELSE ErrRetryTimeout(ReturnsOf(fr.log)[1])

\* a Retry with timeout 0 whose single call failed has returned
C1_Witness ==
    \E p \in Procs :
        /\ retry[p].pc = "done"
        /\ retry[p].timeout = 0
        /\ AttemptsOf(retry[p].log) = <<1>>
        /\ retry[p].ret = Error("ErrRetryTimeout", "e1")

(***************************************************************************)
(* C2.  Retry with timeout > 0 passes the attempt numbers 1, 2, 3, ... in  *)
(* order; once the function returns nil on attempt k, Retry has returned   *)
(* nil after exactly k invocations, the first k-1 of which failed, and the *)
(* successful return is the last thing it did (no sleep, no further call). *)
(***************************************************************************)
C2_RetrySucceedsOnAttemptK ==
    \A p \in Procs :
        (RetryRunning(p) /\ retry[p].timeout > 0) =>
            LET fr == retry[p]
                att == AttemptsOf(fr.log)
                rets == ReturnsOf(fr.log)
            IN  /\ \A i \in DOMAIN att : att[i] = i
                /\ \A k \in DOMAIN rets :
                    rets[k] = Nil =>
                        /\ fr.pc = "done"
                        /\ fr.ret = Nil
                        /\ Len(att) = k
                        /\ Len(rets) = k
                        /\ \A i \in 1 .. k - 1 : rets[i] # Nil
                        /\ Last(fr.log)[1] = "ret"
                        /\ Len(Events(fr.log, "sleep")) = k - 1

\* a Retry with a timeout that succeeded on its third attempt
C2_Witness ==
    \E p \in Procs :
        /\ retry[p].pc = "done"
        /\ retry[p].timeout > 0
        /\ retry[p].ret = Nil
        /\ AttemptsOf(retry[p].log) = <<1, 2, 3>>

(***************************************************************************)
(* C3.  Retry with timeout > 0 never invokes the function more than        *)
(* timeout \div 10ms + 1 times; when every attempt failed and Retry has    *)
(* returned, it made at least one attempt and returned an ErrRetryTimeout  *)
(* wrapping the error of the last attempt.                                 *)
(***************************************************************************)
C3_RetryAlwaysFailing ==
    \A p \in Procs :
        (RetryRunning(p) /\ retry[p].timeout > 0) =>
            LET fr == retry[p]
                att == AttemptsOf(fr.log)
                rets == ReturnsOf(fr.log)
            IN  /\ Len(att) <= (fr.timeout \div (10 * Millisecond)) + 1
                /\ (fr.pc = "done" /\ \A i \in DOMAIN rets : rets[i] # Nil) =>
                    /\ Len(att) >= 1
                    /\ Len(rets) = Len(att)
                    /\ fr.ret = ErrRetryTimeout(Last(rets))
                    /\ fr.ret.cause # "nil"

\* a Retry with timeout 20ms that gave up after the most attempts it can make
C3_Witness ==
    \E p \in Procs :
        /\ retry[p].pc = "done"
        /\ retry[p].timeout = 2 * MinDelay
        /\ Len(AttemptsOf(retry[p].log)) = 3
        /\ retry[p].ret = Error("ErrRetryTimeout", "e2")

(***************************************************************************)
(* C4.  withSecondaryRateLimitRetry: an error of the wrapped call that is  *)
(* not an abuse rate limit error ends the wrapper at once: that return is  *)
(* the last thing the wrapper did (no sleep, no further call) and the      *)
(* wrapper returned that very error, not an ErrRetryTimeout.               *)
(***************************************************************************)
C4_OtherErrorReturnedAtOnce ==
    \A p \in Procs :
        GhRunning(p) =>
            \A i \in DOMAIN gh[p].log :
                (gh[p].log[i][1] = "ret" /\ gh[p].log[i][2] \in Errs) =>
                    /\ i = Len(gh[p].log)
                    /\ gh[p].pc = "done"
                    /\ gh[p].ret = gh[p].log[i][2]

\* the wrapper returned an ordinary error of its second call
C4_Witness ==
    \E p \in Procs :
        /\ gh[p].pc = "done"
        /\ gh[p].ret \in Errs
        /\ Len(AttemptsOf(gh[p].log)) = 2

(***************************************************************************)
(* C5.  withSecondaryRateLimitRetry: when the wrapped call returns an      *)
(* abuse rate limit error carrying RetryAfter, the wrapper sleeps for that *)
(* very duration, and every later invocation of the wrapped call starts no *)
(* earlier than RetryAfter after that return.                              *)
(***************************************************************************)
C5_RetryAfterHonoured ==
    \A p \in Procs :
        GhRunning(p) =>
            LET log == gh[p].log IN
            \A i \in DOMAIN log :
                (log[i][1] = "ret" /\ IsAbuse(log[i][2]) /\ log[i][2].retryAfter # <<>>) =>
                    /\ i < Len(log)
                    /\ log[i + 1] = <<"sleep", log[i][2].retryAfter[1], log[i][3]>>
                    /\ \A j \in DOMAIN log :
                        (j > i /\ log[j][1] = "call") =>
                            log[j][3] >= log[i][3] + log[i][2].retryAfter[1]

\* the wrapped call was invoked again after a rate limit of 400ms
C5_Witness ==
    \E p \in Procs :
        /\ GhRunning(p)
        /\ Len(AttemptsOf(gh[p].log)) = 2
        /\ ReturnsOf(gh[p].log)[1] = AbuseRateLimitError(<<400 * Millisecond>>)

(***************************************************************************)
(* C6.  withSecondaryRateLimitRetry has two exhaustion conditions.  The    *)
(* wrapped call is never invoked more than max(1, retryCount) times and    *)
(* never after the deadline; and the wrapper returns an ErrRetryTimeout    *)
(* only when the attempts have reached retryCount or the deadline has been *)
(* reached, whichever comes first, and in both of these cases when the     *)
(* last call was rate limited.                                             *)
(***************************************************************************)
C6_TwoExhaustionConditions ==
    \A p \in Procs :
        GhRunning(p) =>
            LET fr == gh[p]
                calls == Events(fr.log, "call")
                rets == ReturnsOf(fr.log)
            IN  /\ Len(calls) <= Max2(1, fr.retryCount)
                /\ \A i \in DOMAIN calls : calls[i][3] <= fr.t
                /\ (fr.pc = "done" /\ fr.ret.kind = "ErrRetryTimeout") =>
                    \/ Len(calls) >= fr.retryCount /\ Len(calls) >= 1
                    \/ now >= fr.t
                /\ (fr.pc = "done" /\ rets # <<>> /\ IsAbuse(Last(rets))) =>
                    fr.ret.kind = "ErrRetryTimeout"

\* the retry count was exhausted while the deadline was still ahead
C6_Witness ==
    \E p \in Procs :
        /\ gh[p].pc = "done"
        /\ gh[p].ret.kind = "ErrRetryTimeout"
        /\ gh[p].retryCount = 2
        /\ Len(AttemptsOf(gh[p].log)) = 2
        /\ now < gh[p].t

\* the deadline was reached with fewer attempts than the retry count
C6_WitnessDeadline ==
    \E p \in Procs :
        /\ gh[p].pc = "done"
        /\ gh[p].ret.kind = "ErrRetryTimeout"
        /\ Len(AttemptsOf(gh[p].log)) \in 1 .. gh[p].retryCount - 1
        /\ now >= gh[p].t

(***************************************************************************)
(* C7.  Every ErrRetryTimeout returned by Retry or by                      *)
(* withSecondaryRateLimitRetry after at least one attempt wraps the last   *)
(* error returned by the attempted call, whichever budget was exhausted.   *)
(***************************************************************************)
C7_RetryTimeoutWrapsLastError ==
    /\ \A p \in Procs :
        (retry[p].pc = "done" /\ retry[p].ret.kind = "ErrRetryTimeout"
            /\ ReturnsOf(retry[p].log) # <<>>) =>
                retry[p].ret.cause = Last(ReturnsOf(retry[p].log)).kind
    /\ \A p \in Procs :
        (gh[p].pc = "done" /\ gh[p].ret.kind = "ErrRetryTimeout"
            /\ ReturnsOf(gh[p].log) # <<>>) =>
                gh[p].ret.cause = Last(ReturnsOf(gh[p].log)).kind

(***************************************************************************)
(* What a list operation did, read from its frame.                         *)
(***************************************************************************)
ListRunning == ls.pc # "off"

\* the page fetches among the provider calls, in order
Fetches == SelectSeq(ls.calls, LAMBDA c : c.kind # "CurrentUser")

\* where a fetch started: the cursor (GitHub) or the page number (GitLab)
FetchStartsAt(c, token) ==
    IF ls.provider = "github"
    THEN c.after = token
    ELSE c.page = (IF TrimSpace(token) = <<>> THEN 0 ELSE Atoi(token))

\* the next-page marker a fetch reported
FetchMarker(c) ==
    IF ls.provider = "github" THEN c.reply[1].endCursor ELSE Itoa(c.reply[1].nextPage)

\* a fetch continues from the marker the fetch before it reported
FetchContinues(c, before) ==
    IF ls.provider = "github"
    THEN c.after = before.reply[1].endCursor
    ELSE c.page = before.reply[1].nextPage

RECURSIVE ConcatItems(_)
ConcatItems(calls) ==
    IF calls = <<>> THEN <<>> ELSE calls[1].reply[1].items \o ConcatItems(Tail(calls))

\* the request is rejected as the claim C8 words it
RejectedAsWorded ==
    \/ ls.page = <<>>
    \/ ls.page[1].size < -1
    \/ ls.page[1].size > 100
    \/ ls.provider = "gitlab" /\ ls.page[1].token # <<>> /\ ~AtoiOk(ls.page[1].token)

\* the same with a blank token counting as no token
RejectedNonBlank ==
    \/ ls.page = <<>>
    \/ ls.page[1].size < -1
    \/ ls.page[1].size > 100
    \/ ls.provider = "gitlab" /\ TrimSpace(ls.page[1].token) # <<>> /\ ~AtoiOk(ls.page[1].token)

\* a rejected request makes no provider call, never enters the fetch loop and
\* returns an error with a nil page response
RejectionHolds ==
    /\ ls.calls = <<>>
    /\ ls.pc \in {"start", "done"}
    /\ ls.pc = "done" => (ls.err # Nil /\ ls.resp = <<>>)

(***************************************************************************)
(* C8 as worded.  ListOrgs and ListRepos of both providers reject a nil    *)
(* page request, a page size outside [-1, 100] and, in GitLab, a non-empty *)
(* page token that is not an integer: an error and a nil page response are *)
(* returned and no provider call is made.                                  *)
(***************************************************************************)
C8_NonEmptyTokenRejected == ListRunning => (RejectedAsWorded => RejectionHolds)

(***************************************************************************)
(* C8 as amended.  ListOrgs and ListRepos of both providers reject a nil   *)
(* page request, a page size outside [-1, 100] and, in GitLab, a page      *)
(* token that is not blank (not empty once white space is trimmed) and is  *)
(* not an integer: an error and a nil page response are returned and no    *)
(* provider call is made.                                                  *)
(***************************************************************************)
C8_InvalidRequestRejected == ListRunning => (RejectedNonBlank => RejectionHolds)

\* GitLab ListRepos has rejected the token "x"
C8_Witness ==
    /\ ls.pc = "done"
    /\ ls.provider = "gitlab" /\ ls.op = "ListRepos"
    /\ ls.page # <<>> /\ ls.page[1].token = <<"x">> /\ ls.page[1].size = -1
    /\ ls.err.kind = "page token must be int"
    /\ ls.resp = <<>>
    /\ ls.calls = <<>>

(***************************************************************************)
(* C9.  A list operation with a finite page size that returned without     *)
(* error made exactly one provider fetch, starting at request.token, and   *)
(* returned a page response whose nextToken is the next-page marker the    *)
(* provider reported, and is empty when the provider reported no further   *)
(* page, whose resultSize is the number of items returned and whose        *)
(* totalSize is the total the provider reported.                           *)
(***************************************************************************)
C9_FinitePageResponse ==
    (ls.pc = "done" /\ ls.err = Nil /\ ls.page[1].size # -1) =>
        /\ Len(Fetches) = 1
        /\ FetchStartsAt(Fetches[1], ls.page[1].token)
        /\ ls.resp # <<>>
        /\ ls.resp[1].nextToken =
            (IF Fetches[1].reply[1].hasNextPage THEN FetchMarker(Fetches[1]) ELSE <<>>)
        /\ ls.resp[1].resultSize = Len(ls.items)
        /\ ls.resp[1].totalSize = Fetches[1].reply[1].total

(***************************************************************************)
(* C10.  GitHub ListOrgs, GitHub ListRepos and GitLab ListOrgs with size   *)
(* -1 that returned without error fetched with a page size of 100, the     *)
(* first fetch starting at request.token and each later one continuing     *)
(* from the marker the fetch before it reported, up to the first fetch     *)
(* that reported no further page; they returned the concatenation of the   *)
(* pages in fetch order with nextToken "" and resultSize = totalSize = the *)
(* number of items; from an empty token that is one fetch per page of the  *)
(* provider and the provider's whole list.                                 *)
(***************************************************************************)
C10_FetchAll ==
    (/\ ls.pc = "done" /\ ls.err = Nil /\ ls.page[1].size = -1
     /\ ~(ls.provider = "gitlab" /\ ls.op = "ListRepos")) =>
        LET n == Len(Fetches) IN
        /\ n >= 1
        /\ \A i \in 1 .. n : Fetches[i].perPage = 100
        /\ FetchStartsAt(Fetches[1], ls.page[1].token)
        /\ \A i \in 1 .. n - 1 :
            /\ Fetches[i].reply[1].hasNextPage
            /\ FetchContinues(Fetches[i + 1], Fetches[i])
        /\ ~Fetches[n].reply[1].hasNextPage
        /\ ls.items = ConcatItems(Fetches)
        /\ ls.resp = <<PaginationResponse(<<>>, Len(ls.items), Len(ls.items))>>
        /\ ls.page[1].token = <<>> =>
            /\ n = Max2(1, (backend.count + 99) \div 100)
            /\ ls.items = Range(1, backend.count)

\* GitHub ListRepos has returned a list that spans three provider pages
C10_Witness ==
    /\ ls.pc = "done" /\ ls.err = Nil
    /\ ls.provider = "github" /\ ls.op = "ListRepos"
    /\ ls.page # <<>> /\ ls.page[1].size = -1 /\ ls.page[1].token = <<>>
    /\ Len(Fetches) = 3
    /\ Len(ls.items) = backend.count

(***************************************************************************)
(* C11.  GitLab ListRepos with size -1, for the user's projects and for a  *)
(* group's projects alike: every fetch after the first asks for the page   *)
(* the fetch before it reported as NextPage, no fetch follows one that     *)
(* reported NextPage 0, and a call that returned without error returned    *)
(* every item of the provider's list once, with nextToken "" and           *)
(* resultSize = totalSize = the number of items, after one fetch per       *)
(* provider page.                                                          *)
(***************************************************************************)
C11_GitlabReposFetchAll ==
    (/\ ls.provider = "gitlab" /\ ls.op = "ListRepos"
     /\ ls.page # <<>> /\ ls.page[1].size = -1 /\ ls.page[1].token = <<>>) =>
        LET n == Len(Fetches) IN
        /\ \A i \in 1 .. n - 1 :
            Fetches[i].reply # <<>> =>
                /\ Fetches[i].reply[1].nextPage # 0
                /\ FetchContinues(Fetches[i + 1], Fetches[i])
        /\ (ls.pc = "done" /\ ls.err = Nil) =>
            /\ n = Max2(1, (backend.count + 99) \div 100)
            /\ ls.items = Range(1, backend.count)
            /\ ls.resp = <<PaginationResponse(<<>>, Len(ls.items), Len(ls.items))>>

(***************************************************************************)
(* What a paging caller did, read from its frame.                          *)
(***************************************************************************)
IsPrefix(s, t) == Len(s) <= Len(t) /\ s = SubSeq(t, 1, Len(s))

(***************************************************************************)
(* C12.  A caller that starts with the empty token and calls a list        *)
(* operation with a size N in 1..100, feeding each nextToken into the next *)
(* call until it is empty, receives the items that one call with size -1   *)
(* returns, the provider's whole list, in the same order: what it has      *)
(* received is at every moment the beginning of that list, and all of it   *)
(* once the empty nextToken has come.                                      *)
(***************************************************************************)
C12_PaginationEquivalence ==
    cl.pc # "off" =>
        /\ IsPrefix(cl.items, Range(1, backend.count))
        /\ cl.pc = "done" => cl.items = Range(1, backend.count)

(***************************************************************************)
(* What a call of ValidateConnection did, read from its frame.             *)
(***************************************************************************)
\* the granted scopes: the pieces of the header, trimmed
Granted(header) ==
    [j \in DOMAIN Split(header, ",") |-> TrimSpace(Split(header, ",")[j])]

\* the required pattern is matched by at least one granted scope
GrantedSome(pattern, header) ==
    /\ CompileOk(pattern)
    /\ \E j \in DOMAIN Granted(header) : MatchString(pattern, Granted(header)[j])

\* every required pattern is
AllRequiredGranted(requiredScopes, header) ==
    \A k \in DOMAIN requiredScopes : GrantedSome(requiredScopes[k], header)

ValidateDone(provider) == vc.pc = "done" /\ vc.provider = provider

(***************************************************************************)
(* C13.  GitHub ValidateConnection returns success exactly when the        *)
(* identity call succeeded with status 200 and every required scope        *)
(* pattern matches at least one granted scope of X-OAuth-Scopes (which an  *)
(* empty list of required scopes does trivially), whatever the order of    *)
(* the required list and also when one granted scope matches several       *)
(* required patterns; otherwise it returns an error.                       *)
(***************************************************************************)
C13_GithubValidateExact ==
    ValidateDone("github") =>
        (vc.ret = Nil <=>
            (vc.status = StatusOK /\ AllRequiredGranted(vc.requiredScopes, vc.header)))

(***************************************************************************)
(* C14.  Scopes are matched as regular expressions: GitHub                 *)
(* ValidateConnection with the one required scope "(admin|read):org" and   *)
(* an identity call answered with status 200 succeeds when "admin:org" is  *)
(* granted and when "read:org" is granted, and fails with                  *)
(* ProviderVerification when only "write:org" is; in general it succeeds   *)
(* exactly when some granted scope contains "admin:org" or "read:org".     *)
(***************************************************************************)
C14_ScopeMatchIsRegex ==
    (ValidateDone("github") /\ vc.status = StatusOK
     /\ vc.requiredScopes = <<PatternAnyOrg>>) =>
        /\ vc.header = ScopeAdminOrg => vc.ret = Nil
        /\ vc.header = ScopeReadOrg => vc.ret = Nil
        /\ vc.header = ScopeWriteOrg => vc.ret = ErrProviderVerification("nil")
        /\ vc.ret = Nil <=>
            \E j \in DOMAIN Granted(vc.header) :
                \/ Infix(ScopeAdminOrg, Granted(vc.header)[j])
                \/ Infix(ScopeReadOrg, Granted(vc.header)[j])

\* "(admin|read):org" was required, "read:org" granted, and the call succeeded
C14_Witness ==
    /\ ValidateDone("github") /\ vc.status = StatusOK
    /\ vc.requiredScopes = <<PatternAnyOrg>>
    /\ vc.header = ScopeReadOrg
    /\ vc.foundScopes = {PatternAnyOrg}
    /\ vc.ret = Nil

\* "(admin|read):org" was required, "write:org" granted, and the call failed
C14_WitnessWrite ==
    /\ ValidateDone("github") /\ vc.status = StatusOK
    /\ vc.requiredScopes = <<PatternAnyOrg>>
    /\ vc.header = ScopeWriteOrg
    /\ vc.ret = ErrProviderVerification("nil")

(***************************************************************************)
(* C15.  For both providers, ValidateConnection never returns success when *)
(* some required scope is matched by no granted scope, and when the        *)
(* identity call was answered with status 200 the error returned for the   *)
(* missing scope is ProviderVerification.                                  *)
(***************************************************************************)
C15_MissingScopeNeverAccepted ==
    (vc.pc = "done" /\ ~AllRequiredGranted(vc.requiredScopes, vc.header)) =>
        /\ vc.ret # Nil
        /\ vc.status = StatusOK => vc.ret.kind = "ErrProviderVerification"

(***************************************************************************)
(* What a facade call did, read from its frame and from the repository.    *)
(***************************************************************************)
\* the write calls the provider received during a round
WritesOf(round) == SelectSeq(repo.writes, LAMBDA w : w.round = round)

\* the secret existed when the call was made
SecretExisted == repo.secretPos >= 1 /\ ~repo.secretNew

SecretUpdateKinds == {"CreateOrUpdateRepoSecret", "UpdateProjectVariable"}

(***************************************************************************)
(* C16.  On both providers, AddSecretToRepo for a secret that already      *)
(* exists makes no secret write and returns an error when override is      *)
(* false, the error being RepoAlreadyConnected once the check for the      *)
(* secret has returned; when override is true a call that returned success *)
(* has issued exactly one secret write, an update.                         *)
(***************************************************************************)
C16_SecretConflict ==
    (fa.op = "AddSecretToRepo" /\ fa.pc # "off" /\ SecretExisted) =>
        /\ ~fa.overrideSecret =>
            /\ repo.writes = <<>>
            /\ fa.pc = "done" =>
                /\ fa.ret # Nil
                /\ fa.hasSecret # "unknown" => fa.ret = ErrRepoAlreadyConnected
        /\ (fa.overrideSecret /\ fa.pc = "done" /\ fa.ret = Nil) =>
            /\ Len(repo.writes) = 1
            /\ repo.writes[1].kind \in SecretUpdateKinds

\* the error of a call that a read of the provider failed
ReadFailed(err) == err.kind = "e1" \/ err.cause = "e1"

(***************************************************************************)
(* C17.  On both providers and for every commitSha and workflowFileName,   *)
(* InitialTag called on a repository that has a tag makes no write call    *)
(* (no tag or reference is created, no workflow dispatched) and, when the  *)
(* name is well formed and its reads succeed, returns success; so the      *)
(* second of two calls makes no write when the first returned success.     *)
(***************************************************************************)
C17_InitialTagIdempotent ==
    (fa.op = "InitialTag" /\ fa.pc # "off") =>
        /\ fa.tagged =>
            /\ WritesOf(fa.round) = <<>>
            /\ (fa.pc = "done" /\ fa.named) => (fa.ret = Nil \/ ReadFailed(fa.ret))
        /\ (fa.round = 2 /\ fa.results[1].ret = Nil) => WritesOf(2) = <<>>

(***************************************************************************)
(* What CreateCommitOnBranch did, read from its frame.                     *)
(***************************************************************************)
CreateCommitRunning(provider) ==
    fa.op = "CreateCommitOnBranch" /\ fa.provider = provider /\ fa.pc # "off"

\* the Retry of the phase is between two attempts or has returned
AttemptMade(phase) == fa.phase = phase /\ fa.pc \in {"sleeping", "returned"}

(***************************************************************************)
(* C18.  On either provider, when CreateCommitOnBranch is called twice in  *)
(* succession with the same owner, repo, branch and content and the first  *)
(* call returned success, the second call finds the content in place,      *)
(* issues no commit write and returns success, its reads succeeding.       *)
(***************************************************************************)
C18_SecondCommitIsNoOp ==
    (fa.op = "CreateCommitOnBranch" /\ fa.round = 2 /\ fa.results[1].ret = Nil) =>
        /\ WritesOf(2) = <<>>
        /\ fa.pc = "done" => (fa.ret = Nil \/ ReadFailed(fa.ret))

(***************************************************************************)
(* C19.  GitHub CreateCommitOnBranch returns success with a non-empty      *)
(* commit reference only after a GetCommit for the commit it wrote has     *)
(* succeeded and returned that SHA; and when the commit has not become     *)
(* visible by the time waitForCommit gives up, the call returns an error   *)
(* whose cause is CommitNotFound.                                          *)
(***************************************************************************)
C19_WaitForCommit ==
    (CreateCommitRunning("github") /\ fa.pc = "done") =>
        /\ (fa.ret = Nil /\ fa.ref # 0) =>
            /\ fa.ref = fa.oid /\ fa.got = fa.oid
            /\ fa.oid \in repo.visible
            /\ WritesOf(fa.round) # <<>>
        /\ (fa.phase = "GetCommit" /\ fa.oid \notin repo.visible) =>
            /\ fa.ret # Nil
            /\ fa.ret.cause = ErrCommitNotFound.kind

(***************************************************************************)
(* C20.  GitHub CreateCommitOnBranch submits no commit write while the     *)
(* branch has no tip commit: an attempt that reads an empty ref fails with *)
(* RepoEmpty and mutates nothing, Retry goes on until its timer of         *)
(* CreateRepoTimeoutSeconds is ready (a single attempt when that is 0),    *)
(* and the call then returns no commit reference and an error, a retry     *)
(* timeout whose cause is RepoEmpty when the last attempt read the empty   *)
(* ref.                                                                    *)
(***************************************************************************)
C20_EmptyRepoNeverCommitted ==
    (CreateCommitRunning("github") /\ repo.tip = 0) =>
        /\ repo.writes = <<>>
        /\ AttemptMade("createCommitOnBranch") =>
            /\ fa.rt.err \in {ErrEmptyRepo, Error("failed to query latest commit", "e1")}
            /\ (fa.pc = "returned" /\ ~fa.rt.once) => now >= fa.rt.t
        /\ fa.pc = "done" =>
            /\ fa.ret.kind = "ErrRetryTimeout" /\ fa.ref = 0
            /\ fa.rt.err = ErrEmptyRepo => fa.ret = ErrRetryTimeout(ErrEmptyRepo)

\* the branch stayed empty for the whole second of the budget and the call
\* returned the retry timeout caused by RepoEmpty
C20_Witness ==
    /\ CreateCommitRunning("github") /\ fa.pc = "done"
    /\ repo.tip = 0 /\ repo.writes = <<>>
    /\ fa.createRepoTimeout = 1
    /\ fa.rt.attempt > MaxEnvAttempt + 1
    /\ now >= 1 * Second
    /\ fa.ret = ErrRetryTimeout(ErrEmptyRepo)

(***************************************************************************)
(* What the calls of CreateRepo did, read from the calls the provider      *)
(* received.                                                               *)
(***************************************************************************)
\* the calls made during a round, in order
CallsOf(round) == SelectSeq(repo.calls, LAMBDA c : c.round = round)

\* the names of the calls made during a round, in order
NamesOf(round) == [i \in DOMAIN CallsOf(round) |-> CallsOf(round)[i].name]

\* the round has returned, and what it returned
Returned(round) ==
    \/ round < fa.round
    \/ round = fa.round /\ fa.pc = "done"

ReturnOf(round) == IF round < fa.round THEN fa.results[round].ret ELSE fa.ret

GitlabCreateRepoOrder == <<"GetNamespace", "CreateProject", "ProtectRepositoryTags">>

\* C21: every call of GitLab CreateRepo issues GetNamespace, CreateProject and
\* ProtectRepositoryTags in that order and nothing else, the last with the
\* pattern "v*" and maintainer access; a step that fails is the last call of
\* the round and its error is what the round returns; a round that returned
\* after a successful CreateProject issued ProtectRepositoryTags, and when
\* that failed the project exists
C21_GitlabCreateRepoOrder ==
    fa.provider = "gitlab" /\ fa.op = "CreateRepo" =>
        \A r \in 1 .. fa.round :
            LET cs == CallsOf(r) IN
            /\ IsPrefix(NamesOf(r), GitlabCreateRepoOrder)
            /\ \A i \in DOMAIN cs :
                /\ cs[i].name = "ProtectRepositoryTags" =>
                       cs[i].args = <<fa.owner, "/", repoName, "v*", "MaintainerPermissions">>
                /\ cs[i].err # Nil =>
                       /\ i = Len(cs)
                       /\ Returned(r) /\ ReturnOf(r) = cs[i].err
            /\ Returned(r) /\ Len(cs) >= 2 /\ cs[2].err = Nil =>
                   /\ Len(cs) = 3
                   /\ ReturnOf(r) = cs[3].err
                   /\ repo.project # "none"

\* a first call created the project, its tag protection failed and the
\* error was returned
C21_Witness ==
    /\ fa.provider = "gitlab" /\ fa.op = "CreateRepo" /\ fa.pc = "done" /\ fa.round = 1
    /\ NamesOf(1) = GitlabCreateRepoOrder
    /\ CallsOf(1)[2].err = Nil
    /\ fa.ret = Error("e3", "nil")
    /\ repo.project = "created"

\* a call whose CreateProject failed returned that error
C21_WitnessCreateFails ==
    /\ fa.provider = "gitlab" /\ fa.op = "CreateRepo" /\ fa.pc = "done"
    /\ NamesOf(fa.round) = <<"GetNamespace", "CreateProject">>
    /\ fa.ret = Error("e2", "nil")
    /\ repo.project = "none"

\* C22: GitHub CreateRepo passes the empty owner to the provider's create
\* call when the requested owner is the login GetUsers returned, and the
\* requested owner unchanged otherwise (so a non-empty owner is replaced
\* exactly when it is the login); when GetUsers fails no create call is
\* made and the call returns that error, wrapped
C22_GithubCreateRepoOwner ==
    fa.provider = "github" /\ fa.op = "CreateRepo" =>
        LET cs == CallsOf(fa.round) IN
        /\ \A i \in DOMAIN cs :
            cs[i].name = "CreateRepo" =>
                /\ fa.login = fa.owner => cs[i].args[1] = ""
                /\ fa.login # fa.owner => cs[i].args[1] = fa.owner
                /\ fa.owner # "" => (cs[i].args[1] = "" <=> fa.login = fa.owner)
        /\ Len(cs) >= 1 /\ cs[1].err # Nil =>
            /\ Len(cs) = 1
            /\ fa.pc = "done"
            /\ fa.ret = Wrap(cs[1].err, "failed to read user from github")

\* the owner was the login and the create call was made without owner
C22_Witness ==
    /\ fa.provider = "github" /\ fa.op = "CreateRepo" /\ fa.pc = "done"
    /\ fa.owner = "alice" /\ fa.login = "alice"
    /\ Len(CallsOf(fa.round)) = 2
    /\ CallsOf(fa.round)[2].args = <<"", repoName>>

\* the owner was not the login and was passed as it was
C22_WitnessOther ==
    /\ fa.provider = "github" /\ fa.op = "CreateRepo" /\ fa.pc = "done"
    /\ fa.owner = "Alice" /\ fa.login = "alice"
    /\ Len(CallsOf(fa.round)) = 2
    /\ CallsOf(fa.round)[2].args = <<"Alice", repoName>>

\* the round created the project and its tag protection failed
PartlyCompleted(round) ==
    /\ Len(CallsOf(round)) = 3
    /\ CallsOf(round)[2].err = Nil
    /\ CallsOf(round)[3].err # Nil

\* C24: when a call of GitLab CreateRepo created the project and its tag
\* protection failed, the next call with the same owner and name, once it
\* has returned after a successful GetNamespace, has issued
\* ProtectRepositoryTags again
C24_ReinvocationProtectsTags ==
    fa.provider = "gitlab" /\ fa.op = "CreateRepo" =>
        \A r \in 2 .. fa.round :
            /\ PartlyCompleted(r - 1)
            /\ Returned(r)
            /\ Len(CallsOf(r)) >= 1 /\ CallsOf(r)[1].err = Nil
            => \E i \in DOMAIN CallsOf(r) : CallsOf(r)[i].name = "ProtectRepositoryTags"

\* C23: in GitHub AddSecretToRepo an error of the public-key read, of the
\* secret listing or of the secret write that is a generic provider error
\* is not followed by another attempt of the call, and what comes back from
\* the call is that error, not a RetryTimeoutExceeded error
C23_GenericErrorNotRetried ==
    fa.provider = "github" /\ fa.op = "AddSecretToRepo" =>
        /\ fa.pc # "sleeping"
        /\ fa.pc = "returned" /\ fa.rt.err # Nil => fa.rt.ret = fa.rt.err
        /\ fa.pc = "done" /\ fa.ret # Nil => fa.ret.cause # "ErrRetryTimeout"

(***************************************************************************)
(* Two invocations at once.                                                *)
(***************************************************************************)
\* the events of a log follow program order: call, return, sleep, call, ...
\* one after the other, never two calls without a return between them
Sequential(log) ==
    /\ log # <<>> => log[1][1] = "call"
    /\ \A j \in 1 .. Len(log) - 1 :
        /\ log[j][1] = "call" => log[j + 1][1] = "ret"
        /\ log[j][1] = "ret" => log[j + 1][1] = "sleep"
        /\ log[j][1] = "sleep" => log[j + 1][1] = "call"
        /\ log[j][3] <= log[j + 1][3]

\* the durations slept, in order
SleepsOf(log) == [i \in DOMAIN Events(log, "sleep") |-> Events(log, "sleep")[i][2]]

\* C25: under every interleaving of two invocations of Retry, or of two
\* invocations of withSecondaryRateLimitRetry, each invocation passes the
\* attempt numbers 1, 2, 3, ... to its function, its k-th sleep is drawn from
\* the k-th step of a backoff of its own that starts at the initial delay
\* (for the wrapper: is the RetryAfter of its own last error), its counters
\* count its own attempts only, and its events follow program order
C25_InvocationsIndependent ==
    \A p \in Procs :
        /\ RetryRunning(p) =>
            LET log == retry[p].log IN
            /\ \A i \in DOMAIN AttemptsOf(log) : AttemptsOf(log)[i] = i
            /\ \A k \in DOMAIN SleepsOf(log) : SleepsOf(log)[k] \in BackoffDurations(k - 1)
            /\ SleepsOf(log) # <<>> => SleepsOf(log)[1] = MinDelay
            /\ retry[p].pc # "start" =>
                   /\ retry[p].attempt = 1 + Len(SleepsOf(log))
                   /\ retry[p].b = Len(SleepsOf(log))
            /\ Sequential(log)
        /\ GhRunning(p) =>
            LET log == gh[p].log IN
            /\ \A i \in DOMAIN AttemptsOf(log) : AttemptsOf(log)[i] = i
            /\ gh[p].tryCount = Len(AttemptsOf(log))
            /\ \A k \in DOMAIN SleepsOf(log) :
                   /\ IsAbuse(ReturnsOf(log)[k])
                   /\ SleepsOf(log)[k] = ReturnsOf(log)[k].retryAfter[1]
            /\ Sequential(log)

\* the first invocation of Retry makes its second attempt while the second
\* one still sleeps after its first
C25_Witness ==
    /\ retry[1].pc = "calling" /\ AttemptsOf(retry[1].log) = <<1, 2>>
    /\ retry[2].pc = "sleeping" /\ AttemptsOf(retry[2].log) = <<1>>

\* the same for two invocations of withSecondaryRateLimitRetry
C25_WitnessWrapper ==
    /\ gh[1].pc = "calling" /\ AttemptsOf(gh[1].log) = <<1, 2>>
    /\ gh[2].pc = "sleeping" /\ AttemptsOf(gh[2].log) = <<1>>

\* C26: in Retry with timeout > 0 no attempt starts after the deadline; the
\* timeout error is returned only from the test that precedes an attempt,
\* which is after a sleep and not before the deadline, so never while an
\* attempt is in flight or has just returned; and an attempt that returned
\* nil, however late, makes Retry return nil
C26_DeadlineTestedBeforeAttempt ==
    \A p \in Procs :
        (RetryRunning(p) /\ retry[p].timeout > 0 /\ retry[p].pc # "start") =>
            LET fr == retry[p]
                calls == Events(fr.log, "call")
                rets == Events(fr.log, "ret")
            IN  /\ \A i \in DOMAIN calls : calls[i][3] <= fr.t
                /\ (fr.pc = "done" /\ fr.ret # Nil) =>
                    /\ fr.ret.kind = "ErrRetryTimeout"
                    /\ now >= fr.t
                    /\ fr.log # <<>> /\ Last(fr.log)[1] = "sleep"
                /\ \A k \in DOMAIN rets :
                    rets[k][2] = Nil => fr.pc = "done" /\ fr.ret = Nil /\ k = Len(calls)

\* an attempt started before the deadline, returned nil after it, and Retry
\* returned nil
C26_Witness ==
    \E p \in Procs :
        /\ retry[p].pc = "done" /\ retry[p].timeout > 0 /\ retry[p].ret = Nil
        /\ \E j \in 1 .. Len(retry[p].log) - 1 :
            /\ retry[p].log[j][1] = "call" /\ retry[p].log[j][3] < retry[p].t
            /\ retry[p].log[j + 1][1] = "ret" /\ retry[p].log[j + 1][3] > retry[p].t

\* C27: ValidateConnection keeps its failures apart.  When no response came
\* (the client or the identity call failed) the error is a 'failed to ...'
\* error and not a ProviderVerification; a response with a status other
\* than 200 gives ProviderVerification with no scope examined; the scopes
\* are examined, and a ProviderVerification about them is returned, only
\* after a response with status 200
C27_FailureClassesApart ==
    /\ vc.i > 0 \/ vc.scopeSlice # <<>> \/ vc.foundScopes # {} => vc.status = StatusOK
    /\ vc.pc = "done" =>
        /\ vc.status = 0 =>
            /\ vc.ret.kind \in {"failed to connect to Github", "failed to connect to Gitlab",
                                "failed to create Gitlab client"}
            /\ vc.ret.kind # ErrProviderVerification("nil").kind
        /\ vc.status \notin {0, StatusOK} =>
            /\ vc.ret = ErrProviderVerification("nil")
            /\ vc.i = 0 /\ vc.scopeSlice = <<>> /\ vc.foundScopes = {}
        /\ vc.ret.kind = ErrProviderVerification("nil").kind /\ vc.status = StatusOK =>
            vc.provider = "github" /\ vc.i > 0

\* a response with status 401 was answered with ProviderVerification
C27_Witness ==
    /\ vc.pc = "done" /\ vc.status = 401
    /\ vc.requiredScopes # <<>>
    /\ vc.ret = ErrProviderVerification("nil")

\* the identity call failed
C27_WitnessConnect ==
    /\ vc.pc = "done" /\ vc.status = 0 /\ vc.provider = "github"
    /\ vc.ret = Error("failed to connect to Github", "e1")

\* a scope was missing after a response with status 200
C27_WitnessScope ==
    /\ vc.pc = "done" /\ vc.status = StatusOK /\ vc.i > Len(vc.scopeSlice)
    /\ vc.ret = ErrProviderVerification("nil")

\* gitlab.go 241-246: the record made of a project listed for user
RepoRecord(proj, user) == [name |-> proj, org |-> user]

\* C28: GitLab ListRepos on the user-projects path, when it returns without
\* error, returns no project whose Owner is not the queried user, and the
\* org of every record returned is the Owner of its project
C28_GitlabListReposOwnedOnly ==
    (/\ ls.pc = "done" /\ ls.provider = "gitlab" /\ ls.op = "ListRepos"
     /\ ls.isUser /\ ls.err = Nil) =>
        \A i \in DOMAIN ls.items :
            /\ OwnerOf(ls.items[i], "user") = <<"user">>
            /\ <<RepoRecord(ls.items[i], "user").org>> = OwnerOf(ls.items[i], "user")

\* the provider calls of one kind made by the list operation, in order
ListCallsOf(kind) == SelectSeq(ls.calls, LAMBDA c : c.kind = kind)

\* C29: GitLab Profile, when it returns without error, returns the username
\* of CurrentUser and, in the provider's order, exactly the projects whose
\* Owner is present and has that username; it has fetched every page of
\* the list once, in order, up to the one that reported NextPage = 0
C29_GitlabProfile ==
    (ls.pc = "done" /\ ls.op = "Profile" /\ ls.err = Nil) =>
        LET fetches == ListCallsOf("ListUserProjects")
            n == Max2(1, (backend.count + GitlabPerPage(0) - 1) \div GitlabPerPage(0))
        IN  /\ ls.name = <<"user">>
            /\ ls.items = SelectSeq(Range(1, backend.count),
                                    LAMBDA proj : /\ proj \notin backend.ownerless
                                                  /\ proj \notin backend.other)
            /\ Len(fetches) = n
            /\ \A k \in 1 .. n :
                /\ fetches[k].page = (IF k = 1 THEN 0 ELSE k)
                /\ fetches[k].reply[1].items =
                       Range((k - 1) * GitlabPerPage(0) + 1,
                             Min2(k * GitlabPerPage(0), backend.count))
                /\ fetches[k].reply[1].nextPage = 0 <=> k = n

\* Profile read three pages and dropped a project of another user and one
\* without owner
C29_Witness ==
    /\ ls.pc = "done" /\ ls.op = "Profile" /\ ls.err = Nil
    /\ Len(ListCallsOf("ListUserProjects")) = 3
    /\ backend.other = {2, 22} /\ backend.ownerless = {3}
    /\ Len(ls.items) = backend.count - 3

C30_WitnessCreate ==
    /\ fa.provider = "gitlab" /\ fa.op = "AddSecretToRepo" /\ fa.pc = "done"
    /\ fa.hasSecret = "no" /\ ~fa.overrideSecret
    /\ repo.writes = <<Write("CreateProjectVariable", 1)>>
    /\ fa.ret = Nil

(***************************************************************************)
(* What the CI steps of GitHub InitialTag did.                             *)
(***************************************************************************)
DispatchKind == "CreateWorkflowDispatchEventByFileName"

\* the workflow dispatches the provider received during a round
DispatchesOf(round) == SelectSeq(WritesOf(round), LAMBDA w : w.kind = DispatchKind)

\* the call is in forceRerunWorkflow or has returned from it
InForceRerun == fa.phase = "ListRepositoryWorkflowRuns"

GithubInitialTagRunning ==
    fa.op = "InitialTag" /\ fa.provider = "github" /\ fa.pc # "off"

\* the CI steps come after a successful createRef and need a workflow file;
\* a poll is made before the deadline of its Retry; a dispatch is made only
\* by a call that has left the poll without a run, and then once
CIStepsInPlace ==
    GithubInitialTagRunning =>
        /\ InForceRerun =>
            /\ fa.workflowFileName # ""
            /\ defaultTag \in repo.tags
            /\ WritesOf(fa.round)[1] = Write("createRef", fa.round)
        /\ (InForceRerun /\ fa.pc = "sleeping") => now <= fa.rt.t
        /\ (~InForceRerun \/ fa.pc # "done") => DispatchesOf(fa.round) = <<>>
        /\ (InForceRerun /\ fa.pc = "done") =>
            IF fa.rt.ret = Nil
            THEN DispatchesOf(fa.round) = <<>> /\ fa.ret = Nil
            ELSE Len(DispatchesOf(fa.round)) = 1

\* the step that dispatches returns what the dispatch answered: success when
\* the run was created, the provider's error when it was not
DispatchAnswerReturned ==
    (GithubInitialTagRunning /\ Len(repo'.writes) > Len(repo.writes)
        /\ Last(repo'.writes).kind = DispatchKind) =>
        /\ fa.pc = "returned" /\ fa.rt.ret # Nil
        /\ fa'.pc = "done"
        /\ IF repo'.runs = repo.runs + 1 THEN fa'.ret = Nil
           ELSE repo'.runs = repo.runs /\ fa'.ret = Error("e1", "nil")

(***************************************************************************)
(* C31.  In GitHub InitialTag the CI steps happen only after the tag ref   *)
(* was created successfully and only when a workflow file name is given;   *)
(* the workflow runs are polled before the deadline that                   *)
(* WaitTagTimeoutSeconds sets; the workflow is dispatched exactly once if  *)
(* the poll ended without a run observed and never if a run was observed;  *)
(* a dispatch failure is returned as the error of the call.                *)
(***************************************************************************)
C31_CISteps == [](CIStepsInPlace) /\ [][DispatchAnswerReturned]_vars

\* a call whose poll saw no run has dispatched once, and the dispatch failed
C31_Witness ==
    /\ GithubInitialTagRunning /\ InForceRerun /\ fa.pc = "done"
    /\ fa.rt.ret # Nil /\ Len(DispatchesOf(fa.round)) = 1
    /\ fa.ret = Error("e1", "nil")

\* a call whose poll saw a run after a first poll without one returned
\* success without a dispatch
C31_WitnessRunObserved ==
    /\ GithubInitialTagRunning /\ InForceRerun /\ fa.pc = "done"
    /\ fa.rt.ret = Nil /\ fa.rt.attempt > 1 /\ DispatchesOf(fa.round) = <<>>

\* the repository had no tag before the first call
StartedUntagged == "v1" \notin repo.tags

(***************************************************************************)
(* C32.  After any sequence of GitHub InitialTag calls with a workflow     *)
(* file name on a repository that starts with no tag and no workflow run,  *)
(* a call that returns success leaves a workflow run in place or follows a *)
(* successful dispatch, of this call or of an earlier one: a call after a  *)
(* failed one never reports success while the run is missing.              *)
(***************************************************************************)
C32_SuccessMeansRun ==
    (GithubInitialTagRunning /\ fa.named /\ fa.workflowFileName # "" /\ StartedUntagged
        /\ fa.pc = "done" /\ fa.ret = Nil) =>
        repo.runs > 0

(***************************************************************************)
(* What two calls at once did.                                             *)
(***************************************************************************)
TwoCallsOf(op) == co.pc # "off" /\ fa.op = op

\* the writes of one kind the provider received, from either call
WritesOfKind(kind) == SelectSeq(repo.writes, LAMBDA w : w.kind = kind)

(***************************************************************************)
(* C33.  When two GitHub InitialTag calls for the same repository, which   *)
(* has no tag, run at once with a workflow file name, then under every     *)
(* interleaving at most one tag-creation write is issued and the workflow  *)
(* is dispatched at most once.                                             *)
(***************************************************************************)
C33_OneTagWriteOneDispatch ==
    (TwoCallsOf("InitialTag") /\ fa.provider = "github") =>
        /\ Len(WritesOfKind("createRef")) <= 1
        /\ Len(WritesOfKind(DispatchKind)) <= 1

\* the Retry of the commit returned success without a commit written by
\* the call: the write was skipped
CommitSkipped ==
    /\ CreateCommitRunning("github")
    /\ FacadeReturned("createCommitOnBranch") /\ fa.rt.ret = Nil /\ fa.oid = 0

\* every path of commit.Content has the requested content on the branch
EveryPathMatches(files, content) == \A c \in content : TextAt(files, c[1]) = c[2]

(***************************************************************************)
(* C34.  GitHub CreateCommitOnBranch skips the commit write only when      *)
(* every path of commit.Content already has exactly the requested content  *)
(* on the branch; if a path differs or is absent a commit is submitted,    *)
(* and for one commit and one state of the branch the decision is always   *)
(* the same.                                                               *)
(***************************************************************************)
C34_SkipOnlyWhenAllMatch ==
    CommitSkipped => EveryPathMatches(BranchFiles(repo, fa.branch), fa.content)

\* the text of an entry of commit.Content is the text of its file on the
\* branch
MatchesOnBranch(entry) ==
    ContentMatches(TextAt(BranchFiles(repo, fa.branch), entry[1]), entry[2])

(***************************************************************************)
(* C35.  The file content that GitHub CreateCommitOnBranch compares        *)
(* against, like the tip it expects as head, is read from the branch       *)
(* commit.Branch, also when that is not the default branch: content that   *)
(* only another branch has never makes the call skip the write.            *)
(***************************************************************************)
C35_ComparedOnTargetBranch ==
    CommitSkipped => \E entry \in FirstEntries(fa.content) : MatchesOnBranch(entry)

\* the round's calls of one name
CallsNamed(round, name) == SelectSeq(CallsOf(round), LAMBDA c : c.name = name)

\* the paths looked up during a round
LookedUp(round) ==
    {CallsNamed(round, "GetProjectFile")[i].args :
        i \in 1 .. Len(CallsNamed(round, "GetProjectFile"))}

\* the step in which GitLab CreateCommitOnBranch, its client made, runs
GitlabCommitStep ==
    /\ CreateCommitRunning("gitlab") /\ fa.pc = "start" /\ fa'.pc = "done"
    /\ repo'.calls # repo.calls

\* what the step did, against the files the branch had before it
GitlabCommitAsClaimed ==
    LET calls == CallsOf(fa.round)'
        paths == Paths(fa.content)
        commit == Last(calls) IN
    /\ Len(calls) = Cardinality(paths) + 1
    /\ Len(CallsNamed(fa.round, "GetProjectFile")') = Cardinality(paths)
    /\ LookedUp(fa.round)' = paths
    /\ commit.name = "CreateCommit" /\ fa'.ret = commit.err
    /\ Cardinality(commit.args) = Cardinality(paths)
    /\ \A path \in paths :
        <<path, IF FileExists(BranchFiles(repo, fa.branch), path)
                THEN "update" ELSE "create">> \in commit.args

(***************************************************************************)
(* C36.  GitLab CreateCommitOnBranch issues one file lookup per path of    *)
(* commit.Content and then exactly one CreateCommit call that carries      *)
(* exactly one action per path, "update" when the file exists on the       *)
(* branch and "create" when it does not; the error of CreateCommit is      *)
(* returned unchanged.                                                     *)
(***************************************************************************)
C36_GitlabCommitActions == [][GitlabCommitStep => GitlabCommitAsClaimed]_vars

(***************************************************************************)
(* What bounds an invocation.                                              *)
(***************************************************************************)
\* the wrapper has not invoked the call more often than its retry count
\* allows, once at least
WithinRetryCount ==
    GhRunning(1) => gh[1].tryCount <= Max2(1, gh[1].retryCount)

\* Retry does not invoke the call after its deadline, so that it waits for
\* no more than the timeout, one call and one sleep
CallsBegunByDeadline ==
    RetryRunning(1) =>
        \A i \in 1 .. Len(retry[1].log) :
            retry[1].log[i][1] = "call" => retry[1].log[i][3] <= retry[1].t

\* the provider never sent an abuse rate limit error without a RetryAfter
RetryAfterAlwaysGiven == [](gh[1].pc # "panicked")

(***************************************************************************)
(* C37.  Provided every invocation of the attempted call returns, Retry    *)
(* with any timeout >= 0, and withSecondaryRateLimitRetry with any timeout *)
(* and retry count >= 0 and finite RetryAfter values, eventually return:   *)
(* the waiting is bounded by the timeout and by the retry count, so that   *)
(* neither loops forever, even when the call always fails or is always     *)
(* rate limited.                                                           *)
(***************************************************************************)
C37_Terminates ==
    /\ [](WithinRetryCount /\ CallsBegunByDeadline)
    /\ RetryRunning(1) ~> (retry[1].pc = "done")
    /\ RetryAfterAlwaysGiven => (GhRunning(1) ~> (gh[1].pc = "done"))

\* the wrapper returned the retry limit after as many rate limited calls as
\* its retry count allows
C37_Witness ==
    /\ GhRunning(1) /\ gh[1].pc = "done" /\ gh[1].ret = ErrRetryLimit
    /\ gh[1].retryCount = 2 /\ gh[1].tryCount = 2

\* Retry returned the retry timeout after its deadline, the call having
\* failed every time
C37_WitnessRetry ==
    /\ RetryRunning(1) /\ retry[1].pc = "done" /\ retry[1].timeout = 2 * MinDelay
    /\ retry[1].ret # Nil /\ now > retry[1].t

(***************************************************************************)
(* C38.  Every call of withSecondaryRateLimitRetry invokes the wrapped     *)
(* provider call at least once before it returns, for every timeout and    *)
(* retry count, 0 among them: it never returns the retry timeout without   *)
(* having attempted the call.                                              *)
(***************************************************************************)
C38_CallAttemptedOnce ==
    \A p \in Procs :
        (GhRunning(p) /\ gh[p].pc = "done") =>
            /\ gh[p].tryCount >= 1
            /\ Events(gh[p].log, "call") # <<>>

\* the calls that issued a write
Writers == {round \in {1, 2} : WritesOf(round) # <<>>}

(***************************************************************************)
(* C39.  If two AddSecretToRepo calls without override for the same        *)
(* repository and secret name run at once on a repository that has no such *)
(* secret, then under every interleaving at most one of them issues a      *)
(* secret write; the other returns RepoAlreadyConnected, and so does not   *)
(* return success.                                                         *)
(***************************************************************************)
C39_OneSecretWriter ==
    (TwoCallsOf("AddSecretToRepo") /\ ~fa.overrideSecret) =>
        /\ Cardinality(Writers) <= 1
        /\ (fa.pc = "done" /\ co.pc = "done") => (fa.ret # Nil \/ co.ret # Nil)

====
